---- MODULE Spec2Model ----
(***************************************************************************)
(* StockDataMiner: the acquisition / caching / persistence engine.         *)
(*                                                                         *)
(*   database.py        DatabaseManager   (SQLite backend)                 *)
(*   mongodb_manager.py MongoDBManager    (MongoDB backend)                *)
(*   stock_data.py      StockDataFetcher  (data_exists, get_data,          *)
(*                                         batch_process_tickers)          *)
(*   app.py             fetch_data        (per-symbol fetch and store)     *)
(*                                                                         *)
(* Time is counted in whole hours.  A DataFrame is modelled by its row     *)
(* count, whether its columns are a MultiIndex, and its attrs.             *)
(***************************************************************************)
EXTENDS Integers, Sequences, FiniteSets, TLC

(***************************************************************************)
(* Bounds of the model.                                                    *)
(***************************************************************************)
StartTime == 25
MaxTime == 26
MaxSyms == 2
MaxBatches == 1
MaxPriorCalls == 0
MaxCalls == 2
MaxChunks == 3
MaxListLen == 4
MaxBatchTickers == 3

(***************************************************************************)
(* Program constants.                                                      *)
(***************************************************************************)
DefaultMaxAgeHours == 24
SchemaVersion == 2

Symbols == {"AAPL", "MSFT"}
Backends == {"sqlite", "mongo"}

\* categories_to_process, cut down to three pairs, in the order the loop walks them
Taxonomy ==
    << <<"General Information", "Basic Info">>,
       <<"General Information", "News">>,
       <<"Analysis & Holdings", "Upgrades Downgrades">> >>

\* the pairs initialize_database inserts ("Upgrades/Downgrades" is seeded,
\* "Upgrades Downgrades" is not), in insertion order
SeededTypes ==
    << <<"General Information", "Basic Info">>,
       <<"General Information", "News">> >>

Pairs == {Taxonomy[i] : i \in 1..Len(Taxonomy)}
Keys == {<<s, p[1], p[2]>> : s \in Symbols, p \in Pairs}
NoKey == <<"", "", "">>

NoTs == -1       \* None / NULL timestamp
BadTs == -2      \* a timestamp text that pd.to_datetime cannot parse
NoSource == "None"

(***************************************************************************)
(* Datasets.                                                               *)
(***************************************************************************)
NoneData ==
    [kind |-> "none", rows |-> 0, multi |-> FALSE, fetch_timestamp |-> NoTs,
     data_timestamp |-> NoTs, source |-> NoSource, key |-> NoKey]

\* pd.DataFrame with n rows and empty attrs
Frame(n, multi) ==
    [kind |-> "df", rows |-> n, multi |-> multi, fetch_timestamp |-> NoTs,
     data_timestamp |-> NoTs, source |-> NoSource, key |-> NoKey]

IsDataFrame(d) == d.kind = "df"
IsNone(d) == d.kind = "none"
\* DataFrame.empty
Empty(d) == d.rows = 0

\* the content of a dataset, attrs aside
Content(d) == [kind |-> d.kind, rows |-> d.rows, multi |-> d.multi]
\* the three metadata fields of a dataset
Metadata(d) ==
    [fetch_timestamp |-> d.fetch_timestamp, data_timestamp |-> d.data_timestamp,
     source |-> d.source]

Max(S) == CHOOSE x \in S : \A y \in S : y <= x
Min(S) == CHOOSE x \in S : \A y \in S : x <= y

\* a local variable: v is computed once and F is applied to its value
Bind(v, F(_)) == CHOOSE r \in {F(x) : x \in {v}} : TRUE

\* the strings of the model in the order of their bytes (SQLite's BINARY collation)
Collation ==
    <<"AAPL", "Analysis & Holdings", "Basic Info", "General Information",
      "MSFT", "News", "Upgrades Downgrades">>

Rank(str) == CHOOSE i \in 1..Len(Collation) : Collation[i] = str

\* ORDER BY on three text columns: row a does not come after row b
KeyLeq(a, b) ==
    \/ Rank(a[1]) < Rank(b[1])
    \/ a[1] = b[1] /\ Rank(a[2]) < Rank(b[2])
    \/ a[1] = b[1] /\ a[2] = b[2] /\ Rank(a[3]) <= Rank(b[3])

\* the sequences that list every element of S once
Orderings(S) ==
    {s \in [1..Cardinality(S) -> S] : \A a, b \in 1..Cardinality(S) : s[a] = s[b] => a = b}

(***************************************************************************)
(* DatabaseManager (SQLite).                                               *)
(*                                                                         *)
(* conn and cursor are self.conn and self.cursor: 0 is None, any other     *)
(* number names a connection (the cursor is named by its connection);      *)
(* open is the set of connections that are open.                           *)
(***************************************************************************)

\* pickle.dumps followed by zlib.compress
PickleCompress(data) == [zip |-> TRUE, fmt |-> "pickle", obj |-> data]
\* bytes that are neither a zlib stream nor a pickle
Garbage == [zip |-> FALSE, fmt |-> "garbage", obj |-> NoneData]

\* sqlite3.connect: a new connection, bound to self.conn and self.cursor
Connect(d) ==
    LET c == Max({d.conn, d.cursor} \cup d.open) + 1
    IN [d EXCEPT !.conn = c, !.cursor = c, !.open = @ \cup {c}]

\* DatabaseManager.close
Close(d) ==
    IF d.conn # 0
    THEN [d EXCEPT !.open = @ \ {d.conn}, !.conn = 0, !.cursor = 0]
    ELSE d

\* a connection nobody refers to any more is closed when it is collected,
\* and the numbering of the remaining one starts again at 1
Collect(d) ==
    LET o == d.open \cap {d.conn}
    IN [d EXCEPT !.conn = IF d.conn = 0 THEN 0 ELSE 1,
                 !.cursor = IF d.cursor = 0 THEN 0
                            ELSE IF d.cursor = d.conn THEN 1 ELSE 2,
                 !.open = IF o = {} THEN {} ELSE {1}]

TickerIdOf(d, sym) ==
    LET ts == {t \in d.tickers : t.symbol = sym}
    IN IF ts = {} THEN 0 ELSE (CHOOSE t \in ts : TRUE).id

DataTypeIdOf(d, cat, typ) ==
    LET ts == {t \in d.data_types : t.category = cat /\ t.name = typ}
    IN IF ts = {} THEN 0 ELSE (CHOOSE t \in ts : TRUE).id

\* DatabaseManager.get_or_create_ticker_id
GetOrCreateTickerId(d, sym) ==
    LET d1 == Connect(d)
        found == TickerIdOf(d1, sym)
        id == IF found # 0 THEN found ELSE d1.ticker_seq + 1
        d2 == IF found # 0 THEN d1
              ELSE [d1 EXCEPT !.tickers = @ \cup {[id |-> id, symbol |-> sym]},
                              !.ticker_seq = id]
    IN [st |-> Close(d2), ret |-> id]

GetDataTypeIdLeavesOpen(d, cat, typ) ==
    LET d1 == Connect(d)
        found == DataTypeIdOf(d1, cat, typ)
        id == IF found # 0 THEN found ELSE d1.type_seq + 1
        d2 == IF found # 0 THEN d1
              ELSE [d1 EXCEPT !.data_categories = @ \cup {cat},
                              !.data_types = @ \cup
                                  {[id |-> id, category |-> cat, name |-> typ]},
                              !.type_seq = id]
    IN [st |-> d2, ret |-> id]

\* DatabaseManager.get_data_type_id
GetDataTypeId(d, cat, typ) ==
    LET d1 == Connect(d)
        found == DataTypeIdOf(d1, cat, typ)
        id == IF found # 0 THEN found ELSE d1.type_seq + 1
        d2 == IF found # 0 THEN d1
              ELSE [d1 EXCEPT !.data_categories = @ \cup {cat},
                              !.data_types = @ \cup
                                  {[id |-> id, category |-> cat, name |-> typ]},
                              !.type_seq = id]
    IN [st |-> Close(d2), ret |-> id]

\* INSERT OR REPLACE under UNIQUE(ticker_id, data_type_id) ON CONFLICT REPLACE
InsertOrReplace(rows, row) ==
    {r \in rows : ~(r.ticker_id = row.ticker_id /\ r.data_type_id = row.data_type_id)}
        \cup {row}

\* DatabaseManager.store_data.
\*   on_own: the INSERT, when it is reached, runs on the connection that
\*   store_data opened;  released: close() in the finally block closes that
\*   connection
DbStoreData(d, key, data, data_timestamp, source, now) ==
    LET dts == IF data_timestamp = NoTs /\ IsDataFrame(data) /\ data.fetch_timestamp # NoTs
               THEN data.fetch_timestamp ELSE data_timestamp
        \* from the test of the two ids to the finally block; conn is the local
        \* name of the connection opened first, d3 the handles as the nested
        \* operations left them, closed the state after self.close()
        Finish(conn, ticker_id, data_type_id, d3, closed) ==
            LET row == [ticker_id |-> ticker_id, data_type_id |-> data_type_id,
                        data |-> PickleCompress(data), fetch_timestamp |-> now,
                        data_timestamp |-> dts, source |-> source,
                        compressed |-> 1, is_pickled |-> 1]
            IN IF ticker_id = 0 \/ data_type_id = 0
               THEN \* ValueError("Failed to get reference IDs")
                    [st |-> Collect(closed), ret |-> FALSE,
                     on_own |-> TRUE, released |-> conn \notin closed.open]
               ELSE IF d3.cursor = 0 \/ d3.cursor \notin d3.open
               THEN \* self.cursor is None, or belongs to a closed connection
                    [st |-> Collect(closed), ret |-> FALSE,
                     on_own |-> FALSE, released |-> conn \notin closed.open]
               ELSE IF d3.cursor = conn
               THEN \* the statement and the commit are on the same connection
                    [st |-> Collect([closed EXCEPT
                                        !.stock_data = InsertOrReplace(@, row)]),
                     ret |-> TRUE, on_own |-> TRUE,
                     released |-> conn \notin closed.open]
               ELSE \* the statement ran on another connection than the one committed
                    [st |-> Collect(closed), ret |-> TRUE,
                     on_own |-> FALSE, released |-> conn \notin closed.open]
        TypeId(conn, r1) ==
            Bind(GetDataTypeId(r1.st, key[2], key[3]),
                 LAMBDA r2 : Bind(Close(r2.st),
                                  LAMBDA closed : Finish(conn, r1.ret, r2.ret,
                                                         r2.st, closed)))
        TickerId(d1) ==
            Bind(GetOrCreateTickerId(d1, key[1]), LAMBDA r1 : TypeId(d1.conn, r1))
    IN Bind(Connect(d), TickerId)

\* the operations that connect, run their statements and close in a finally
\* block without calling another operation in between (get_stored_data,
\* delete_data, get_stock_metadata; clear_database and get_available_data run
\* initialize_database to its end before they connect): the statements run on
\* the connection just opened, and close() closes it
DbScopedCall(d) ==
    LET d1 == Connect(d)
    IN d1.cursor = d1.conn /\ d1.conn \in d1.open /\ d1.conn \notin Close(d1).open


\* the rows of the join that get_stored_data and data_exists select
DbRowsOf(d, key) ==
    {r \in d.stock_data :
        /\ r.ticker_id # 0 /\ r.ticker_id = TickerIdOf(d, key[1])
        /\ r.data_type_id # 0 /\ r.data_type_id = DataTypeIdOf(d, key[2], key[3])}

\* zlib.decompress, then pickle.loads or the CSV reader; ok = FALSE when either raises
Decode(row) ==
    LET blob == row.data
        zerr == row.compressed # 0 /\ ~blob.zip
        plain == IF row.compressed # 0 THEN [blob EXCEPT !.zip = FALSE] ELSE blob
        perr == IF row.is_pickled # 0
                THEN plain.zip \/ plain.fmt # "pickle"
                ELSE plain.zip \/ plain.fmt # "csv"
        obj == IF row.is_pickled # 0 THEN plain.obj
               ELSE Frame(plain.obj.rows, FALSE)
    IN [ok |-> ~zerr /\ ~perr, obj |-> obj]

\* the attrs get_stored_data puts on a decoded DataFrame
DbAttach(data, row, key) ==
    IF IsDataFrame(data)
    THEN [data EXCEPT !.fetch_timestamp = row.fetch_timestamp,
                      !.data_timestamp = IF row.data_timestamp # NoTs
                                         THEN row.data_timestamp ELSE @,
                      !.source = IF row.source # NoSource /\ row.source # ""
                                 THEN row.source ELSE @,
                      !.key = key]
    ELSE data

\* DatabaseManager.get_stored_data
DbGetStoredData(d, key) ==
    LET rows == DbRowsOf(d, key)
        row == CHOOSE r \in rows : TRUE
        dec == Decode(row)
        st == Collect(Close(Connect(d)))
    IN IF rows = {} THEN [st |-> st, ret |-> NoneData]
       ELSE IF ~dec.ok THEN [st |-> st, ret |-> NoneData]
       ELSE [st |-> st, ret |-> DbAttach(dec.obj, row, key)]

\* DatabaseManager.delete_data
DbDeleteData(d, key) ==
    LET d1 == Connect(d)
        d2 == [d1 EXCEPT !.stock_data = @ \ DbRowsOf(d1, key)]
    IN [st |-> Collect(Close(d2)), ret |-> TRUE]

\* DatabaseManager.initialize_database
InitializeDatabase(d) ==
    LET d1 == Connect(d)
        seed == {[id |-> i, category |-> SeededTypes[i][1], name |-> SeededTypes[i][2]] :
                    i \in 1..Len(SeededTypes)}
        fresh == [d1 EXCEPT !.schema_version = SchemaVersion,
                            !.tickers = {}, !.ticker_seq = 0,
                            !.data_categories = {"General Information", "Historical Data",
                                                 "Financial Statements", "Analysis & Holdings"},
                            !.data_types = seed, !.type_seq = Len(SeededTypes),
                            !.stock_data = {}]
    IN IF d1.schema_version < SchemaVersion THEN Close(fresh) ELSE Close(d1)

\* DatabaseManager.get_available_data: the rows of the join, ORDER BY
\* t.symbol, dc.name, dt.name
DbGetAvailableData(d) ==
    LET d1 == Connect(InitializeDatabase(d))
        rows == {<<x[2].symbol, x[3].category, x[3].name, x[1].fetch_timestamp,
                   x[1].data_timestamp, x[1].source>> :
                    x \in {y \in d1.stock_data \X d1.tickers \X d1.data_types :
                              /\ y[1].ticker_id = y[2].id
                              /\ y[1].data_type_id = y[3].id
                              /\ y[3].category \in d1.data_categories}}
    IN [st |-> Collect(Close(d1)),
        ret |-> CHOOSE s \in Orderings(rows) :
                    \A a, b \in 1..Len(s) : a <= b => KeyLeq(s[a], s[b])]

\* DatabaseManager.clear_database
DbClearDatabase(d) ==
    LET d1 == Connect(InitializeDatabase(d))
        d2 == [d1 EXCEPT !.stock_data = {}, !.tickers = {}, !.ticker_seq = 0]
    IN [st |-> Collect(Close(d2)), ret |-> TRUE]

\* DatabaseManager.get_stock_metadata: found, and the COUNT(s.id) of the symbol
DbGetStockMetadata(d, sym) ==
    LET id == TickerIdOf(d, sym)
    IN [st |-> Collect(Close(Connect(d))),
        ret |-> [found |-> id # 0,
                 data_count |-> Cardinality({r \in d.stock_data : id # 0 /\ r.ticker_id = id})]]

(***************************************************************************)
(* MongoDBManager.  up = FALSE: the server cannot be reached and every     *)
(* pymongo call raises.                                                    *)
(***************************************************************************)

\* a new ObjectId: any value not in use; the least one is taken
NewObjectId(m) ==
    LET used == {t.id : t \in m.tickers} \cup {t.id : t \in m.data_types}
                    \cup {t.id : t \in m.stock_data}
    IN Min({i \in 1..(Cardinality(used) + 1) : i \notin used})

MongoTickerIdOf(m, sym) ==
    LET ts == {t \in m.tickers : t.symbol = sym}
    IN IF ts = {} THEN 0 ELSE (CHOOSE t \in ts : TRUE).id

MongoDataTypeIdOf(m, cat, typ) ==
    LET ts == {t \in m.data_types : t.category = cat /\ t.info_type = typ}
    IN IF ts = {} THEN 0 ELSE (CHOOSE t \in ts : TRUE).id

\* MongoDBManager.get_or_create_ticker_id
MongoGetOrCreateTickerId(m, sym) ==
    LET found == MongoTickerIdOf(m, sym)
        id == NewObjectId(m)
    IN IF found # 0 THEN [st |-> m, ret |-> found]
       ELSE [st |-> [m EXCEPT !.tickers = @ \cup {[id |-> id, symbol |-> sym]}],
             ret |-> id]

\* MongoDBManager.get_data_type_id
MongoGetDataTypeId(m, cat, typ) ==
    LET found == MongoDataTypeIdOf(m, cat, typ)
        id == NewObjectId(m)
    IN IF found # 0 THEN [st |-> m, ret |-> found]
       ELSE [st |-> [m EXCEPT !.data_types = @ \cup
                          {[id |-> id, category |-> cat, info_type |-> typ]}],
             ret |-> id]

\* DataFrame.to_json(orient="table"): the rows, without the attrs
ToJson(data) == [rows |-> data.rows]
\* pd.read_json(orient="table")
ReadJson(j) == Frame(j.rows, FALSE)

\* update_one(filter, {"$set": document}, upsert=True)
UpdateOneUpsert(m, doc) ==
    LET hits == {x \in m.stock_data :
                    x.ticker_id = doc.ticker_id /\ x.data_type_id = doc.data_type_id}
        hit == CHOOSE x \in hits : TRUE
    IN IF hits = {}
       THEN [m EXCEPT !.stock_data = @ \cup {[doc EXCEPT !.id = NewObjectId(m)]}]
       ELSE [m EXCEPT !.stock_data = (@ \ {hit}) \cup {[doc EXCEPT !.id = hit.id]}]

\* MongoDBManager.store_data
MongoStoreData(m, up, key, data, data_timestamp, source, now) ==
    LET r1 == MongoGetOrCreateTickerId(m, key[1])
        r2 == MongoGetDataTypeId(r1.st, key[2], key[3])
        doc == [id |-> 0, ticker_id |-> r1.ret, data_type_id |-> r2.ret,
                data |-> ToJson(data), fetch_timestamp |-> now,
                data_timestamp |-> data_timestamp, source |-> source]
    IN IF ~IsDataFrame(data) THEN [st |-> m, ret |-> FALSE]
       ELSE IF ~up THEN [st |-> m, ret |-> FALSE]
       ELSE IF data.multi
       THEN \* to_json raises NotImplementedError for MultiIndex columns
            [st |-> r2.st, ret |-> FALSE]
       ELSE [st |-> UpdateOneUpsert(r2.st, doc), ret |-> TRUE]

MongoDocsOf(m, key) ==
    {x \in m.stock_data :
        /\ x.ticker_id # 0 /\ x.ticker_id = MongoTickerIdOf(m, key[1])
        /\ x.data_type_id # 0 /\ x.data_type_id = MongoDataTypeIdOf(m, key[2], key[3])}

\* MongoDBManager.get_stored_data
MongoGetStoredData(m, up, key) ==
    LET docs == MongoDocsOf(m, key)
        doc == CHOOSE x \in docs : TRUE
    IN IF ~up \/ docs = {} THEN [st |-> m, ret |-> NoneData]
       ELSE [st |-> m,
             ret |-> [ReadJson(doc.data) EXCEPT
                          !.fetch_timestamp = doc.fetch_timestamp,
                          !.data_timestamp = doc.data_timestamp,
                          !.source = doc.source]]

\* MongoDBManager.get_available_data: every answer the aggregate may give.
\* The pipeline has no $sort stage, so the documents come in the natural
\* order of the collection, which the server does not fix; $project keeps
\* symbol, category, info_type and fetch_timestamp only.
MongoGetAvailableData(m, up) ==
    LET rows == {<<x[2].symbol, x[3].category, x[3].info_type, x[1].fetch_timestamp>> :
                    x \in {y \in m.stock_data \X m.tickers \X m.data_types :
                              y[1].ticker_id = y[2].id /\ y[1].data_type_id = y[3].id}}
    IN IF up THEN Orderings(rows) ELSE {<<>>}

\* MongoDBManager.delete_data
MongoDeleteData(m, up, key) ==
    LET docs == MongoDocsOf(m, key)
        doc == CHOOSE x \in docs : TRUE
    IN IF ~up \/ docs = {} THEN [st |-> m, ret |-> FALSE]
       ELSE [st |-> [m EXCEPT !.stock_data = @ \ {doc}], ret |-> TRUE]

\* MongoDBManager.clear_database
MongoClearDatabase(m, up) ==
    IF ~up THEN [st |-> m, ret |-> FALSE]
    ELSE [st |-> [m EXCEPT !.stock_data = {}], ret |-> TRUE]

\* MongoDBManager.get_stock_metadata
MongoGetStockMetadata(m, up, sym) ==
    LET id == MongoTickerIdOf(m, sym)
    IN [st |-> m,
        ret |-> [found |-> up /\ id # 0,
                 data_count |-> Cardinality({x \in m.stock_data :
                                                up /\ id # 0 /\ x.ticker_id = id})]]


(***************************************************************************)
(* The configured db_manager: one of the two managers behind one           *)
(* interface.  b is "sqlite" or "mongo"; the result carries both states.   *)
(***************************************************************************)

StoreOn(b, d, m, up, key, data, data_timestamp, source, now) ==
    IF b = "sqlite"
    THEN Bind(DbStoreData(d, key, data, data_timestamp, source, now),
              LAMBDA r : [db |-> r.st, mongo |-> m, ret |-> r.ret,
                          scoped |-> r.on_own /\ r.released])
    ELSE Bind(MongoStoreData(m, up, key, data, data_timestamp, source, now),
              LAMBDA r : [db |-> d, mongo |-> r.st, ret |-> r.ret, scoped |-> TRUE])

GetOn(b, d, m, up, key) ==
    IF b = "sqlite"
    THEN LET r == DbGetStoredData(d, key)
         IN [db |-> r.st, mongo |-> m, ret |-> r.ret]
    ELSE LET r == MongoGetStoredData(m, up, key)
         IN [db |-> d, mongo |-> r.st, ret |-> r.ret]

DeleteOn(b, d, m, up, key) ==
    IF b = "sqlite"
    THEN LET r == DbDeleteData(d, key)
         IN [db |-> r.st, mongo |-> m, ret |-> r.ret]
    ELSE LET r == MongoDeleteData(m, up, key)
         IN [db |-> d, mongo |-> r.st, ret |-> r.ret]

ClearOn(b, d, m, up) ==
    IF b = "sqlite"
    THEN LET r == DbClearDatabase(d)
         IN [db |-> r.st, mongo |-> m, ret |-> r.ret]
    ELSE LET r == MongoClearDatabase(m, up)
         IN [db |-> d, mongo |-> r.st, ret |-> r.ret]

MetadataOn(b, d, m, up, sym) ==
    IF b = "sqlite"
    THEN LET r == DbGetStockMetadata(d, sym)
         IN [db |-> r.st, mongo |-> m, ret |-> r.ret]
    ELSE LET r == MongoGetStockMetadata(m, up, sym)
         IN [db |-> d, mongo |-> r.st, ret |-> r.ret]

(***************************************************************************)
(* StockDataFetcher.                                                       *)
(***************************************************************************)

\* what the provider adapter does on one call
ProviderOutcomes == {"raise", "empty", "ok"}

\* the frame the adapter hands back
ProviderFrame(outcome) == IF outcome = "ok" THEN Frame(1, FALSE) ELSE Frame(0, FALSE)

\* the source get_data and _enhance_data_metadata leave in attrs
SourceFor(key) ==
    IF key[2] = "Analysis & Holdings" /\ key[3] = "Upgrades Downgrades"
    THEN "Firm (via Yahoo Finance)"
    ELSE "Yahoo Finance"

\* the age test of data_exists
IsFresh(fetch_timestamp, max_age, now) ==
    /\ fetch_timestamp # BadTs
    /\ fetch_timestamp # NoTs
    /\ now - fetch_timestamp <= max_age

\* StockDataFetcher.data_exists
DataExists(f, d, key, max_age, now) ==
    LET rows == DbRowsOf(d, key)
        row == CHOOSE r \in rows : TRUE
        \* two connections, each closed on the connection itself, not by close()
        c1 == Connect(d)
        c2 == Connect([c1 EXCEPT !.open = @ \ {c1.conn}])
        d2 == Collect([c2 EXCEPT !.open = @ \ {c2.conn}])
    IN IF key \in f.cache THEN [st |-> d, ret |-> TRUE]
       ELSE IF f.db_manager # "sqlite"
       THEN \* MongoDBManager has no connect(): AttributeError, caught
            [st |-> d, ret |-> FALSE]
       ELSE IF rows = {} THEN [st |-> d2, ret |-> FALSE]
       ELSE [st |-> d2, ret |-> IsFresh(row.fetch_timestamp, max_age, now)]

KeepNotNone(data) == ~IsNone(data)

\* "data is not None and not data.empty": the answer is kept and stored
Keep(data) == ~IsNone(data) /\ ~Empty(data)

\* StockDataFetcher.get_data
GetData(f, d, m, up, key, force_refresh, outcome, now) ==
    LET raw == ProviderFrame(outcome)
        fresh == IF Empty(raw) THEN raw
                 ELSE [raw EXCEPT !.fetch_timestamp = now, !.key = key,
                                  !.source = SourceFor(key)]
        \* the try block: the adapter call, then the attrs
        Fetch(d2) ==
            IF outcome = "raise"
            THEN [db |-> d2, cache |-> f.cache, data |-> NoneData,
                  raised |-> TRUE, called |-> TRUE]
            ELSE [db |-> d2, cache |-> f.cache, data |-> fresh,
                  raised |-> FALSE, called |-> TRUE]
        \* existing_data = self.db_manager.get_stored_data(...)
        Existing(got) ==
            IF Keep(got.ret)
            THEN [db |-> got.db, cache |-> f.cache \cup {key}, data |-> got.ret,
                  raised |-> FALSE, called |-> FALSE]
            ELSE Fetch(got.db)
        Exists(ex) ==
            IF ex.ret
            THEN Bind(GetOn(f.db_manager, ex.st, m, up, key), Existing)
            ELSE Fetch(ex.st)
    IN IF ~force_refresh /\ key[3] # "News"
       THEN Bind(DataExists(f, d, key, DefaultMaxAgeHours, now), Exists)
       ELSE Fetch(d)

ReportedOnSuccess(hit, keep, raised) == hit \/ keep

\* whether the loop body calls the callback: on a cache hit, on a kept answer
\* and in the except branch
Reported(hit, keep, raised) == hit \/ keep \/ raised

EscapesOnError(raised) == raised

\* whether an exception leaves the loop body: "except Exception" catches all
Escapes(raised) == FALSE

\* whether the loop body reports a failed store_data: the value store_data
\* returns is discarded and the callback is called with success True
Warned(store_ok) == FALSE

\* the body of the innermost loop of batch_process_tickers for one
\* (ticker, category, info_type): try ... except included.
\*   added: category_data[info_type] = data;  reported, success, from_cache:
\*   the callback call;  escaped: an exception leaves the loop body;
\*   stored, store_ok: store_data was called, and what it returned;
\*   warned: the failure of store_data is reported
ProcessItem(f, d, m, up, key, force_refresh, outcome, now) ==
    LET \* the dataset comes from the backend: callback(..., True, from_cache=True)
        Hit(got) ==
            [db |-> got.db, mongo |-> m, cache |-> f.cache, added |-> TRUE,
             data |-> got.ret, reported |-> Reported(TRUE, FALSE, FALSE),
             success |-> TRUE, from_cache |-> TRUE, called |-> FALSE,
             raised |-> FALSE, escaped |-> Escapes(FALSE),
             stored |-> FALSE, store_ok |-> FALSE, warned |-> FALSE]
        \* get_data returned a dataset that is kept: store_data, cache, callback
        Kept(g, st) ==
            [db |-> st.db, mongo |-> st.mongo, cache |-> g.cache \cup {key},
             added |-> TRUE, data |-> g.data,
             reported |-> Reported(FALSE, TRUE, FALSE),
             success |-> TRUE, from_cache |-> FALSE, called |-> g.called,
             raised |-> FALSE, escaped |-> Escapes(FALSE),
             stored |-> TRUE, store_ok |-> st.ret, warned |-> Warned(st.ret)]
        \* get_data returned None or an empty frame, or raised
        Dropped(g) ==
            [db |-> g.db, mongo |-> m, cache |-> g.cache, added |-> FALSE,
             data |-> NoneData, reported |-> Reported(FALSE, FALSE, g.raised),
             success |-> FALSE, from_cache |-> FALSE, called |-> g.called,
             raised |-> g.raised, escaped |-> Escapes(g.raised),
             stored |-> FALSE, store_ok |-> FALSE, warned |-> FALSE]
        Got(g) ==
            IF ~g.raised /\ Keep(g.data)
            THEN Bind(StoreOn(f.db_manager, g.db, m, up, key, g.data,
                              g.data.data_timestamp, g.data.source, now),
                      LAMBDA st : Kept(g, st))
            ELSE Dropped(g)
        \* data = self.get_data(ticker, category, info_type, force_refresh)
        Miss(d2) == Bind(GetData(f, d2, m, up, key, force_refresh, outcome, now), Got)
        Existing(got) == IF Keep(got.ret) THEN Hit(got) ELSE Miss(got.db)
        Exists(ex) ==
            IF ex.ret
            THEN Bind(GetOn(f.db_manager, ex.st, m, up, key), Existing)
            ELSE Miss(ex.st)
    IN IF ~force_refresh
       THEN Bind(DataExists(f, d, key, DefaultMaxAgeHours, now), Exists)
       ELSE Miss(d)

\* the same loop body when sqlite3.connect may fail (openable = FALSE): connect
\* returns None, so data_exists answers False unless the key is in
\* _fetched_data_cache, get_stored_data returns None, and get_data asks the
\* provider.  category_data[info_type] = data is assigned first; store_data
\* then reaches conn.rollback() with conn = None inside its except clause, the
\* AttributeError leaves store_data, the cache line is skipped, and the except
\* branch of the loop body calls callback(..., False, error=...).
\* MongoDBManager has no file to open.
ProcessItemOn(f, d, m, up, key, force_refresh, outcome, now, openable) ==
    IF f.db_manager # "sqlite" \/ openable
    THEN ProcessItem(f, d, m, up, key, force_refresh, outcome, now)
    ELSE Bind(GetData(f, d, m, up, key, TRUE, outcome, now),
              LAMBDA g :
                 IF ~g.raised /\ Keep(g.data)
                 THEN [db |-> g.db, mongo |-> m, cache |-> g.cache, added |-> TRUE,
                       data |-> g.data, reported |-> Reported(FALSE, FALSE, TRUE),
                       success |-> FALSE, from_cache |-> FALSE, called |-> g.called,
                       raised |-> TRUE, escaped |-> Escapes(TRUE),
                       stored |-> TRUE, store_ok |-> FALSE, warned |-> FALSE]
                 ELSE ProcessItem(f, d, m, up, key, TRUE, outcome, now))

(***************************************************************************)
(* Start of the application: the choice of the storage backend.            *)
(***************************************************************************)

\* what is installed beside the program: nothing, pymongo, or pymongo with a
\* module that "import dnspython" finds
Installs == {"none", "pymongo", "full"}

\* HAS_PYMONGO of mongodb_manager: every import of the try block succeeded
HasPymongo(env) == env = "full"

\* st.session_state.pymongo_available: "import pymongo" and bson succeed
PymongoAvailable(env) == env # "none"

DbTypes == {"SQLite (Local)", "MongoDB (Cloud)"}

GoodUri == "mongodb://db.example:27017"
BadUri == "db.example"

\* the connection strings typed in the sidebar: none, a well-formed one and one
\* that MongoClient rejects
Uris == {"", GoodUri, BadUri}

\* MongoDBManager(connection_string): whether the constructor raises, and
\* whether it prints its "MongoDB connection issue" warning.  Without
\* HAS_PYMONGO the class is the stand-in whose constructor raises ImportError;
\* a missing string raises ValueError; MongoClient raises on a string it cannot
\* parse; a failed ping and a failed create_index are caught and printed.
NewMongoDBManager(env, uri, up) ==
    IF ~HasPymongo(env) \/ uri = "" \/ uri = BadUri
    THEN [raised |-> TRUE, printed |-> FALSE]
    ELSE [raised |-> FALSE, printed |-> ~up]

\* the database initialisation of app.py for the selected db_type: the
\* db_manager put in the session state, the sidebar messages shown, and
\* whether DatabaseManager.initialize_database was run
SelectBackend(db_type, uri, env, up) ==
    LET selected == IF PymongoAvailable(env) THEN db_type ELSE "SQLite (Local)"
        unavailable == IF ~PymongoAvailable(env) /\ db_type = "MongoDB (Cloud)"
                       THEN <<"error">> ELSE <<>>
        m == NewMongoDBManager(env, uri, up)
    IN IF selected = "MongoDB (Cloud)"
       THEN IF uri # ""
            THEN IF ~m.raised
                 THEN [db_manager |-> "mongo", messages |-> <<"success">>,
                       sqlite |-> FALSE, selected |-> selected]
                 ELSE [db_manager |-> "sqlite", messages |-> <<"error", "warning">>,
                       sqlite |-> TRUE, selected |-> selected]
            ELSE [db_manager |-> "sqlite", messages |-> <<"warning">>,
                  sqlite |-> TRUE, selected |-> selected]
       ELSE [db_manager |-> "sqlite", messages |-> unavailable,
             sqlite |-> TRUE, selected |-> selected]

(***************************************************************************)
(* BatchProcessor (batch_process.py): price history is downloaded for      *)
(* batch_size tickers at a time, every other item per ticker.              *)
(***************************************************************************)
\* batch_size in process_tickers
BatchSize == 20

\* categories_to_process, cut down to two pairs, in the order the loops walk them
ProcPairs ==
    << <<"General Information", "Basic Info">>,
       <<"Historical Data", "Price History">> >>

PriceHistory == <<"Historical Data", "Price History">>

\* the number of passes of "for i in range(0, len(tickers), batch_size)"
ChunkCount(tickers) == (Len(tickers) + BatchSize - 1) \div BatchSize

\* tickers[i:i+batch_size] in pass c, where i = (c - 1) * batch_size
ProcChunk(tickers, c) ==
    SubSeq(tickers, (c - 1) * BatchSize + 1, Min({c * BatchSize, Len(tickers)}))

\* the two "Store in ..." blocks: db_manager.store_data, then
\* mongodb_manager.store_data when there is a MongoDB manager; what either
\* returns or raises is dropped
StoreBoth(d, m, up, mongodb, key, data, now) ==
    Bind(DbStoreData(d, key, data, data.data_timestamp, data.source, now),
         LAMBDA r :
            [db |-> r.st,
             mongo |-> IF mongodb
                       THEN MongoStoreData(m, up, key, data, data.data_timestamp,
                                           data.source, now).st
                       ELSE m])

\* ticker_hist with its attrs: fetch_timestamp, data_timestamp, source
HistFrame(now) ==
    [Frame(1, FALSE) EXCEPT !.fetch_timestamp = now, !.data_timestamp = now,
                            !.source = "Yahoo Finance"]

\* "for ticker in batch" after a download that returned frames: each ticker's
\* frame is stored and counted, from the k-th ticker of the chunk on
RECURSIVE StoreHistory(_, _, _, _, _, _)
StoreHistory(acc, chunk, k, up, mongodb, now) ==
    IF k > Len(chunk) THEN acc
    ELSE Bind(StoreBoth(acc.db, acc.mongo, up, mongodb,
                        <<chunk[k], PriceHistory[1], PriceHistory[2]>>,
                        HistFrame(now), now),
              LAMBDA r : StoreHistory([db |-> r.db, mongo |-> r.mongo,
                                       stored |-> acc.stored + 1],
                                      chunk, k + 1, up, mongodb, now))

\* the data frame _get_data returns, with the attrs the _get_* methods set
ProcFrame(outcome, now) ==
    IF outcome = "ok"
    THEN [Frame(1, FALSE) EXCEPT !.fetch_timestamp = now, !.source = "Yahoo Finance"]
    ELSE Frame(0, FALSE)

(***************************************************************************)
(* The comprehensive export of app.py: the ticker list is cut into batches *)
(* of at most max_batch_tickers, each handed to batch_process_tickers.     *)
(***************************************************************************)
ExportBatchCountFloor(total_tickers, max_batch_tickers) ==
    total_tickers \div max_batch_tickers

\* batch_count: the ceiling division
ExportBatchCount(total_tickers, max_batch_tickers) ==
    (total_tickers + max_batch_tickers - 1) \div max_batch_tickers

\* current_batch = all_tickers[batch_start:batch_end] in pass i, i from 0
CurrentBatch(all_tickers, max_batch_tickers, i) ==
    LET batch_start == i * max_batch_tickers
        batch_end == Min({batch_start + max_batch_tickers, Len(all_tickers)})
    IN SubSeq(all_tickers, batch_start + 1, batch_end)

(***************************************************************************)
(* State.                                                                  *)
(*   db       the SQLite file and the DatabaseManager's handles            *)
(*   mongo    the collections of the MongoDB database                      *)
(*   mongoUp  whether the MongoDB server can be reached                    *)
(*   now      the clock, in hours                                          *)
(*   fetcher  StockDataFetcher: db_manager and _fetched_data_cache, with   *)
(*            the number of calls and of batches made on it                *)
(*   batch    the batch_process_tickers call in progress                   *)
(*   last     the last call made and what it returned                      *)
(*   inflight the store_data calls that run concurrently, each with its    *)
(*            position and its local variables                             *)
(***************************************************************************)
VARIABLES db, mongo, mongoUp, now, fetcher, batch, last, inflight

vars == <<db, mongo, mongoUp, now, fetcher, batch, last, inflight>>

NoCall ==
    [op |-> "none", key |-> NoKey, arg |-> NoneData, ok |-> FALSE, ret |-> NoneData,
     called |-> FALSE, raised |-> FALSE, from_cache |-> FALSE, outcome |-> "",
     max_age |-> 0, found |-> FALSE, count |-> 0, stored |-> FALSE, td |-> {},
     results |-> {}, log |-> <<>>, listing |-> <<>>, warned |-> FALSE,
     db_type |-> "", uri |-> "", messages |-> <<>>, both |-> <<>>,
     scoped |-> TRUE]

NoBatch ==
    [active |-> FALSE, escaped |-> FALSE, syms |-> <<>>, force |-> FALSE, cb |-> FALSE,
     i |-> 1, j |-> 1, ticker_data |-> {}, results |-> {}, log |-> <<>>]

\* the callers of concurrent store_data calls
Threads == {1, 2}

NoDoc ==
    [id |-> 0, ticker_id |-> 0, data_type_id |-> 0, data |-> ToJson(NoneData),
     fetch_timestamp |-> NoTs, data_timestamp |-> NoTs, source |-> NoSource]

\* a caller that is not in store_data
Idle ==
    [pc |-> "idle", key |-> NoKey, data |-> NoneData, ticker_id |-> 0,
     data_type_id |-> 0, doc |-> NoDoc, matched |-> 0, ret |-> FALSE]

NoCalls == [t \in Threads |-> Idle]

\* a database file that does not exist yet
EmptyFile ==
    [conn |-> 0, cursor |-> 0, open |-> {}, schema_version |-> 0,
     tickers |-> {}, ticker_seq |-> 0, data_categories |-> {},
     data_types |-> {}, type_seq |-> 0, stock_data |-> {}]

\* the frame get_data returns for a one-row answer fetched at time ts
FetchedFrame(key, ts) ==
    [Frame(1, FALSE) EXCEPT !.fetch_timestamp = ts, !.key = key, !.source = SourceFor(key)]

\* a database file left by an earlier run, holding one row for key
FileWith(key, blob, ts) ==
    LET s == InitializeDatabase(EmptyFile)
    IN [s EXCEPT !.tickers = {[id |-> 1, symbol |-> key[1]]},
                 !.ticker_seq = 1,
                 !.stock_data = {[ticker_id |-> 1,
                                  data_type_id |-> DataTypeIdOf(s, key[2], key[3]),
                                  data |-> blob, fetch_timestamp |-> ts,
                                  data_timestamp |-> NoTs, source |-> SourceFor(key),
                                  compressed |-> 1, is_pickled |-> 1]}]

KBasic == <<"AAPL", "General Information", "Basic Info">>
KNews == <<"AAPL", "General Information", "News">>

\* the stock_data.db files the program may find when it starts
InitialFiles ==
    { EmptyFile,
      FileWith(KBasic, PickleCompress(FetchedFrame(KBasic, StartTime - DefaultMaxAgeHours)),
               StartTime - DefaultMaxAgeHours),
      FileWith(KNews, PickleCompress(FetchedFrame(KNews, StartTime)), StartTime),
      FileWith(KBasic, Garbage, StartTime),
      FileWith(KBasic, PickleCompress(FetchedFrame(KBasic, StartTime)), BadTs) }

\* the datasets callers hand to store_data
StoreInputs ==
    { NoneData,
      Frame(0, FALSE),
      [Frame(1, FALSE) EXCEPT !.fetch_timestamp = StartTime, !.source = "Yahoo Finance"],
      [Frame(2, FALSE) EXCEPT !.fetch_timestamp = StartTime, !.data_timestamp = StartTime - 1,
                              !.source = "Firm (via Yahoo Finance)"],
      [Frame(1, TRUE) EXCEPT !.fetch_timestamp = StartTime, !.source = "Yahoo Finance"] }

\* the keys on which the storage interface is called directly
CallKeys ==
    { KBasic, <<"MSFT", "Analysis & Holdings", "Upgrades Downgrades">> }

MaxAges == {0, 1, DefaultMaxAgeHours}

SymbolLists ==
    UNION {[1..n -> Symbols] : n \in 0..MaxSyms}

Init ==
    /\ fetcher \in [db_manager : Backends, cache : {{}}, calls : {0}, batches : {0}]
    /\ db \in {InitializeDatabase(f) :
                  f \in IF fetcher.db_manager = "sqlite" THEN InitialFiles ELSE {EmptyFile}}
    /\ mongo = [tickers |-> {}, data_types |-> {}, stock_data |-> {}]
    /\ mongoUp \in IF fetcher.db_manager = "mongo" THEN BOOLEAN ELSE {TRUE}
    /\ now = StartTime
    /\ batch = NoBatch
    /\ last = NoCall
    /\ inflight = NoCalls

(***************************************************************************)
(* Calls on the storage interface of the configured db_manager.            *)
(***************************************************************************)

\* db_manager.store_data(symbol, category, info_type, data,
\*                       data_timestamp=attrs data_timestamp, source=attrs source)
StoreData(key, data) ==
    /\ ~batch.active
    /\ LET r == StoreOn(fetcher.db_manager, db, mongo, mongoUp, key, data,
                        data.data_timestamp, data.source, now)
       IN /\ db' = r.db
          /\ mongo' = r.mongo
          /\ last' = [NoCall EXCEPT !.op = "store_data", !.key = key, !.arg = data,
                                    !.ok = r.ret, !.scoped = r.scoped]
    /\ UNCHANGED <<inflight, mongoUp, now, fetcher, batch>>

\* db_manager.get_stored_data(symbol, category, info_type)
GetStoredData(key) ==
    /\ ~batch.active
    /\ LET r == GetOn(fetcher.db_manager, db, mongo, mongoUp, key)
       IN /\ db' = r.db
          /\ mongo' = r.mongo
          /\ last' = [NoCall EXCEPT !.op = "get_stored_data", !.key = key, !.ret = r.ret,
                                    !.scoped = DbScopedCall(db)]
    /\ UNCHANGED <<inflight, mongoUp, now, fetcher, batch>>

\* db_manager.delete_data(symbol, category, info_type)
DeleteData(key) ==
    /\ ~batch.active
    /\ LET r == DeleteOn(fetcher.db_manager, db, mongo, mongoUp, key)
       IN /\ db' = r.db
          /\ mongo' = r.mongo
          /\ last' = [NoCall EXCEPT !.op = "delete_data", !.key = key, !.ok = r.ret,
                                    !.scoped = DbScopedCall(db)]
    /\ UNCHANGED <<inflight, mongoUp, now, fetcher, batch>>

\* db_manager.clear_database()
ClearDatabase ==
    /\ ~batch.active
    /\ LET r == ClearOn(fetcher.db_manager, db, mongo, mongoUp)
       IN /\ db' = r.db
          /\ mongo' = r.mongo
          /\ last' = [NoCall EXCEPT !.op = "clear_database", !.ok = r.ret,
                                    !.scoped = DbScopedCall(db)]
    /\ UNCHANGED <<inflight, mongoUp, now, fetcher, batch>>

\* db_manager.get_available_data()
GetAvailableData ==
    /\ ~batch.active
    /\ \E r \in {DbGetAvailableData(db)} :
       \E rows \in IF fetcher.db_manager = "sqlite" THEN {r.ret}
                   ELSE MongoGetAvailableData(mongo, mongoUp) :
          /\ db' = IF fetcher.db_manager = "sqlite" THEN r.st ELSE db
          /\ last' = [NoCall EXCEPT !.op = "get_available_data", !.listing = rows,
                                    !.scoped = DbScopedCall(db)]
    /\ UNCHANGED <<inflight, mongo, mongoUp, now, fetcher, batch>>

\* db_manager.get_stock_metadata(symbol)
GetStockMetadata(sym) ==
    /\ ~batch.active
    /\ LET r == MetadataOn(fetcher.db_manager, db, mongo, mongoUp, sym)
       IN /\ db' = r.db
          /\ mongo' = r.mongo
          /\ last' = [NoCall EXCEPT !.op = "get_stock_metadata",
                                    !.key = <<sym, "", "">>,
                                    !.found = r.ret.found, !.count = r.ret.data_count,
                                    !.scoped = DbScopedCall(db)]
    /\ UNCHANGED <<inflight, mongoUp, now, fetcher, batch>>

\* an hour passes
Tick ==
    /\ ~batch.active
    /\ now < MaxTime
    /\ now' = now + 1
    /\ last' = [NoCall EXCEPT !.op = "tick"]
    /\ UNCHANGED <<inflight, db, mongo, mongoUp, fetcher, batch>>

\* the MongoDB server becomes unreachable
ServerDown ==
    /\ ~batch.active
    /\ fetcher.db_manager = "mongo"
    /\ mongoUp
    /\ mongoUp' = FALSE
    /\ last' = [NoCall EXCEPT !.op = "server_down"]
    /\ UNCHANGED <<inflight, db, mongo, now, fetcher, batch>>

\* the MongoDB server becomes reachable again
ServerUp ==
    /\ ~batch.active
    /\ fetcher.db_manager = "mongo"
    /\ ~mongoUp
    /\ mongoUp' = TRUE
    /\ last' = [NoCall EXCEPT !.op = "server_up"]
    /\ UNCHANGED <<inflight, db, mongo, now, fetcher, batch>>

StoreNext ==
    \/ \E key \in CallKeys, data \in StoreInputs : StoreData(key, data)
    \/ \E key \in CallKeys : GetStoredData(key)
    \/ \E key \in CallKeys : DeleteData(key)
    \/ ClearDatabase
    \/ GetAvailableData
    \/ \E sym \in Symbols : GetStockMetadata(sym)
    \/ Tick
    \/ ServerDown
    \/ ServerUp

\* the storage interface under direct calls
StoreSpec == Init /\ [][StoreNext]_vars


(***************************************************************************)
(* Calls on the StockDataFetcher.                                          *)
(***************************************************************************)

\* the keys on which the fetcher is called outside a batch
FetchKeys == {k \in Keys : k[1] = "AAPL"}

\* data_fetcher.data_exists(symbol, category, info_type, max_age_hours)
DataExistsCall(key, max_age) ==
    /\ ~batch.active
    /\ fetcher.calls < MaxCalls
    /\ \E r \in {DataExists(fetcher, db, key, max_age, now)} :
          /\ db' = r.st
          /\ last' = [NoCall EXCEPT !.op = "data_exists", !.key = key,
                                    !.max_age = max_age, !.ok = r.ret]
    /\ fetcher' = [fetcher EXCEPT !.calls = @ + 1]
    /\ UNCHANGED <<inflight, mongo, mongoUp, now, batch>>

\* app.py fetch_data, one symbol: get_data, then store_data of a non-empty answer
FetchData(key, outcome) ==
    /\ ~batch.active
    /\ fetcher.calls < MaxCalls
    /\ \E g \in {GetData(fetcher, db, mongo, mongoUp, key, FALSE, outcome, now)} :
       \E st \in {StoreOn(fetcher.db_manager, g.db, mongo, mongoUp, key, g.data,
                          g.data.data_timestamp, g.data.source, now)} :
       LET keep == ~g.raised /\ Keep(g.data)
       IN /\ db' = IF keep THEN st.db ELSE g.db
          /\ mongo' = IF keep THEN st.mongo ELSE mongo
          /\ fetcher' = [fetcher EXCEPT !.cache = g.cache, !.calls = @ + 1]
          /\ last' = [NoCall EXCEPT !.op = "fetch_data", !.key = key, !.ret = g.data,
                                    !.called = g.called, !.raised = g.raised,
                                    !.from_cache = ~g.called,
                                    !.outcome = IF g.called THEN outcome ELSE "",
                                    !.stored = keep, !.ok = keep /\ st.ret]
    /\ UNCHANGED <<inflight, mongoUp, now, batch>>

\* results[ticker] = ticker_data
ResultsPut(results, sym, ticker_data) ==
    {e \in results : e.ticker # sym} \cup {[ticker |-> sym, data |-> ticker_data]}

\* data_fetcher.batch_process_tickers(ticker_symbols, callback, force_refresh): entry
BatchStart(syms, force, cb) ==
    /\ ~batch.active
    /\ fetcher.calls <= MaxPriorCalls
    /\ fetcher.batches < MaxBatches
    /\ batch' = [NoBatch EXCEPT !.active = TRUE, !.syms = syms, !.force = force, !.cb = cb]
    /\ fetcher' = [fetcher EXCEPT !.batches = @ + 1]
    /\ last' = [NoCall EXCEPT !.op = "batch_start"]
    /\ UNCHANGED <<inflight, db, mongo, mongoUp, now>>

CallbackFirst(log, report) == <<report>> \o log

\* callback(ticker, category, info_type, success, ...): the calls made so far,
\* in the order in which they were made
Callback(log, report) == Append(log, report)

\* one pass of the innermost loop of batch_process_tickers, and, after the last
\* info type of a ticker, the bookkeeping that closes the ticker; openable:
\* whether sqlite3.connect can open the database file during the pass
BatchPass(outcome, openable) ==
    /\ \E r \in {ProcessItemOn(fetcher, db, mongo, mongoUp,
                               <<batch.syms[batch.i], Taxonomy[batch.j][1],
                                 Taxonomy[batch.j][2]>>,
                               batch.force, outcome, now, openable)} :
       LET sym == batch.syms[batch.i]
           pair == Taxonomy[batch.j]
           key == <<sym, pair[1], pair[2]>>
           entry == [category |-> pair[1], info_type |-> pair[2], data |-> r.data]
           td == IF r.added
                 THEN {e \in batch.ticker_data :
                          ~(e.category = pair[1] /\ e.info_type = pair[2])} \cup {entry}
                 ELSE batch.ticker_data
           report == [ticker |-> sym, category |-> pair[1], info_type |-> pair[2],
                      success |-> r.success, from_cache |-> r.from_cache]
           lg == IF batch.cb /\ r.reported THEN Callback(batch.log, report) ELSE batch.log
           lastOfTicker == batch.j = Len(Taxonomy)
       IN /\ db' = r.db
          /\ mongo' = r.mongo
          /\ fetcher' = [fetcher EXCEPT !.cache = r.cache]
          /\ batch' = IF r.escaped
                      THEN [batch EXCEPT !.escaped = TRUE]
                      ELSE [batch EXCEPT
                               !.log = lg,
                               !.j = IF lastOfTicker THEN 1 ELSE @ + 1,
                               !.i = IF lastOfTicker THEN @ + 1 ELSE @,
                               !.ticker_data = IF lastOfTicker THEN {} ELSE td,
                               !.results = IF lastOfTicker /\ td # {}
                                           THEN ResultsPut(@, sym, td) ELSE @]
          /\ last' = [NoCall EXCEPT !.op = "batch_item", !.key = key, !.ret = r.data,
                                    !.called = r.called, !.raised = r.raised,
                                    !.from_cache = r.from_cache,
                                    !.outcome = IF r.called THEN outcome ELSE "",
                                    !.stored = r.stored, !.ok = r.store_ok, !.td = td,
                                    !.warned = r.warned]
    /\ UNCHANGED <<inflight, mongoUp, now>>

\* the pass over a database file that can be opened
BatchItem(outcome) ==
    /\ batch.active
    /\ ~batch.escaped
    /\ batch.i <= Len(batch.syms)
    /\ BatchPass(outcome, TRUE)

\* the pass over a database file that sqlite3.connect may fail to open
BatchItemOn(outcome, openable) ==
    /\ batch.active
    /\ ~batch.escaped
    /\ batch.i <= Len(batch.syms)
    /\ BatchPass(outcome, openable)

\* batch_process_tickers returns results
BatchReturn ==
    /\ batch.active
    /\ ~batch.escaped
    /\ batch.i > Len(batch.syms)
    /\ batch' = NoBatch
    /\ last' = [NoCall EXCEPT !.op = "batch_return", !.results = batch.results,
                              !.log = batch.log]
    /\ UNCHANGED <<inflight, db, mongo, mongoUp, now, fetcher>>

Next ==
    \/ \E key \in FetchKeys, max_age \in MaxAges : DataExistsCall(key, max_age)
    \/ \E key \in FetchKeys, outcome \in ProviderOutcomes : FetchData(key, outcome)
    \/ \E syms \in SymbolLists, force \in BOOLEAN, cb \in BOOLEAN :
          BatchStart(syms, force, cb)
    \/ \E outcome \in ProviderOutcomes : BatchItem(outcome)
    \/ BatchReturn
    \/ Tick

\* the fetcher over its configured db_manager
Spec == Init /\ [][Next]_vars

\* batch_process_tickers over a database file that sqlite3.connect may fail to
\* open during any pass
FaultNext ==
    \/ \E syms \in SymbolLists, force \in BOOLEAN, cb \in BOOLEAN :
          BatchStart(syms, force, cb)
    \/ \E outcome \in ProviderOutcomes, openable \in BOOLEAN :
          BatchItemOn(outcome, openable)
    \/ BatchReturn
    \/ Tick

FaultSpec == Init /\ [][FaultNext]_vars


(***************************************************************************)
(* A manager used as constructed: DatabaseManager(db_name) does not touch  *)
(* the file, and initialize_database is one of the calls that can be made  *)
(* on it.                                                                  *)
(***************************************************************************)

\* a file written under the schema version before the current one
OldFile ==
    [FileWith(KBasic, PickleCompress(FetchedFrame(KBasic, StartTime)), StartTime)
        EXCEPT !.schema_version = SchemaVersion - 1]

\* the files a DatabaseManager may be constructed on
RawFiles == InitialFiles \cup {OldFile}

RawInit ==
    /\ fetcher \in [db_manager : Backends, cache : {{}}, calls : {0}, batches : {0}]
    /\ db \in IF fetcher.db_manager = "sqlite" THEN RawFiles ELSE {EmptyFile}
    /\ mongo = [tickers |-> {}, data_types |-> {}, stock_data |-> {}]
    /\ mongoUp \in IF fetcher.db_manager = "mongo" THEN BOOLEAN ELSE {TRUE}
    /\ now = StartTime
    /\ batch = NoBatch
    /\ last = NoCall
    /\ inflight = NoCalls

\* db_manager.initialize_database()
InitializeDatabaseCall ==
    /\ fetcher.db_manager = "sqlite"
    /\ db' = InitializeDatabase(db)
    /\ last' = [NoCall EXCEPT !.op = "initialize_database"]
    /\ UNCHANGED <<inflight, mongo, mongoUp, now, fetcher, batch>>

RawNext ==
    \/ InitializeDatabaseCall
    \/ \E key \in FetchKeys, max_age \in MaxAges : DataExistsCall(key, max_age)
    \/ \E key \in CallKeys, data \in StoreInputs : StoreData(key, data)
    \/ \E key \in CallKeys : GetStoredData(key)
    \/ \E key \in CallKeys : DeleteData(key)
    \/ ClearDatabase
    \/ GetAvailableData
    \/ \E sym \in Symbols : GetStockMetadata(sym)
    \/ Tick
    \/ ServerDown
    \/ ServerUp

\* the storage interface and data_exists on a manager as constructed
RawSpec == RawInit /\ [][RawNext]_vars


(***************************************************************************)
(* The application from its start: the backend is chosen, then used.       *)
(***************************************************************************)

\* the session before the database is initialised: db_manager is None
AppInit ==
    /\ fetcher = [db_manager |-> "none", cache |-> {}, calls |-> 0, batches |-> 0]
    /\ db \in InitialFiles
    /\ mongo = [tickers |-> {}, data_types |-> {}, stock_data |-> {}]
    /\ mongoUp \in BOOLEAN
    /\ now = StartTime
    /\ batch = NoBatch
    /\ last = NoCall
    /\ inflight = NoCalls

\* app.py, "Initialize database based on selection", db_initialized being False
InitializeBackend(db_type, uri, env) ==
    /\ fetcher.db_manager = "none"
    /\ \E r \in {SelectBackend(db_type, uri, env, mongoUp)} :
          /\ fetcher' = [fetcher EXCEPT !.db_manager = r.db_manager]
          /\ db' = IF r.sqlite THEN InitializeDatabase(db) ELSE db
          /\ last' = [NoCall EXCEPT !.op = "startup", !.db_type = r.selected,
                                    !.uri = uri, !.messages = r.messages]
    /\ UNCHANGED <<inflight, mongo, mongoUp, now, batch>>

\* a call on the storage interface of the db_manager of the session
AppCall ==
    /\ fetcher.db_manager # "none"
    /\ StoreNext

AppNext ==
    \/ \E db_type \in DbTypes, uri \in Uris, env \in Installs :
          InitializeBackend(db_type, uri, env)
    \/ AppCall

\* the application started with no db_manager
AppSpec == AppInit /\ [][AppNext]_vars


(***************************************************************************)
(* The two managers side by side: every call is made on a DatabaseManager  *)
(* and on a MongoDBManager, and last.both holds what the first and the     *)
(* second returned.                                                        *)
(***************************************************************************)

\* a DatabaseManager on a new file and a MongoDBManager on an empty database
BothInit ==
    /\ fetcher = [db_manager |-> "none", cache |-> {}, calls |-> 0, batches |-> 0]
    /\ db = InitializeDatabase(EmptyFile)
    /\ mongo = [tickers |-> {}, data_types |-> {}, stock_data |-> {}]
    /\ mongoUp = TRUE
    /\ now = StartTime
    /\ batch = NoBatch
    /\ last = NoCall
    /\ inflight = NoCalls

\* the keys a listing names
ListedKeys(rows) == {<<rows[n][1], rows[n][2], rows[n][3]>> : n \in 1..Len(rows)}

BothStoreData(key, data) ==
    /\ \E a \in {DbStoreData(db, key, data, data.data_timestamp, data.source, now)} :
       \E b \in {MongoStoreData(mongo, mongoUp, key, data, data.data_timestamp,
                                data.source, now)} :
          /\ db' = a.st
          /\ mongo' = b.st
          /\ last' = [NoCall EXCEPT !.op = "both_store_data", !.key = key, !.arg = data,
                                    !.both = <<a.ret, b.ret>>]
    /\ UNCHANGED <<inflight, mongoUp, now, fetcher, batch>>

\* the outcome is whether a dataset came back
BothGetStoredData(key) ==
    /\ \E a \in {DbGetStoredData(db, key)} :
       \E b \in {MongoGetStoredData(mongo, mongoUp, key)} :
          /\ db' = a.st
          /\ mongo' = b.st
          /\ last' = [NoCall EXCEPT !.op = "both_get_stored_data", !.key = key,
                                    !.both = <<~IsNone(a.ret), ~IsNone(b.ret)>>]
    /\ UNCHANGED <<inflight, mongoUp, now, fetcher, batch>>

BothDeleteData(key) ==
    /\ \E a \in {DbDeleteData(db, key)} :
       \E b \in {MongoDeleteData(mongo, mongoUp, key)} :
          /\ db' = a.st
          /\ mongo' = b.st
          /\ last' = [NoCall EXCEPT !.op = "both_delete_data", !.key = key,
                                    !.both = <<a.ret, b.ret>>]
    /\ UNCHANGED <<inflight, mongoUp, now, fetcher, batch>>

BothClearDatabase ==
    /\ \E a \in {DbClearDatabase(db)} :
       \E b \in {MongoClearDatabase(mongo, mongoUp)} :
          /\ db' = a.st
          /\ mongo' = b.st
          /\ last' = [NoCall EXCEPT !.op = "both_clear_database",
                                    !.both = <<a.ret, b.ret>>]
    /\ UNCHANGED <<inflight, mongoUp, now, fetcher, batch>>

\* the outcome is the set of keys listed
BothGetAvailableData ==
    /\ \E a \in {DbGetAvailableData(db)} :
       \E rows \in MongoGetAvailableData(mongo, mongoUp) :
          /\ db' = a.st
          /\ last' = [NoCall EXCEPT !.op = "both_get_available_data",
                                    !.both = <<ListedKeys(a.ret), ListedKeys(rows)>>]
    /\ UNCHANGED <<inflight, mongo, mongoUp, now, fetcher, batch>>

\* the outcome is whether the symbol is known
BothGetStockMetadata(sym) ==
    /\ \E a \in {DbGetStockMetadata(db, sym)} :
       \E b \in {MongoGetStockMetadata(mongo, mongoUp, sym)} :
          /\ db' = a.st
          /\ mongo' = b.st
          /\ last' = [NoCall EXCEPT !.op = "both_get_stock_metadata",
                                    !.key = <<sym, "", "">>,
                                    !.both = <<a.ret.found, b.ret.found>>]
    /\ UNCHANGED <<inflight, mongoUp, now, fetcher, batch>>

BothNext ==
    \/ \E key \in CallKeys, data \in StoreInputs : BothStoreData(key, data)
    \/ \E key \in CallKeys : BothGetStoredData(key)
    \/ \E key \in CallKeys : BothDeleteData(key)
    \/ BothClearDatabase
    \/ BothGetAvailableData
    \/ \E sym \in Symbols : BothGetStockMetadata(sym)
    \/ Tick

\* one sequence of calls applied to both managers
BothSpec == BothInit /\ [][BothNext]_vars


(***************************************************************************)
(* Two store_data calls on one key at the same time.  On MongoDBManager a  *)
(* step is one pymongo call; update_one with upsert=True is a query phase  *)
(* and a write phase, which the server keeps together only under a unique  *)
(* index on the filter, and the index on (ticker_id, data_type_id) is not  *)
(* unique.  On DatabaseManager a step is a whole store_data call: the two  *)
(* calls one after the other, in either order.                             *)
(***************************************************************************)

\* the datasets of the two calls
ConcInputs ==
    { [Frame(1, FALSE) EXCEPT !.fetch_timestamp = StartTime, !.source = "Yahoo Finance"],
      [Frame(2, FALSE) EXCEPT !.fetch_timestamp = StartTime,
                              !.data_timestamp = StartTime - 1,
                              !.source = "Firm (via Yahoo Finance)"] }

\* both callers have just entered store_data with the same key
ConcInit ==
    /\ fetcher \in [db_manager : Backends, cache : {{}}, calls : {0}, batches : {0}]
    /\ db = InitializeDatabase(EmptyFile)
    /\ mongo = [tickers |-> {}, data_types |-> {}, stock_data |-> {}]
    /\ mongoUp = TRUE
    /\ now = StartTime
    /\ batch = NoBatch
    /\ last = NoCall
    /\ \E key \in CallKeys, d1 \in ConcInputs, d2 \in ConcInputs :
          inflight = [t \in Threads |->
                         [Idle EXCEPT !.pc = "call", !.key = key,
                                      !.data = IF t = 1 THEN d1 ELSE d2]]

\* MongoDBManager.store_data, entry: the isinstance test
MongoEnter(t) ==
    /\ fetcher.db_manager = "mongo"
    /\ inflight[t].pc = "call"
    /\ inflight' = [inflight EXCEPT
                       ![t].pc = IF IsDataFrame(inflight[t].data)
                                 THEN "find_ticker" ELSE "done",
                       ![t].ret = FALSE]
    /\ last' = [NoCall EXCEPT !.op = "enter"]
    /\ UNCHANGED <<db, mongo, mongoUp, now, fetcher, batch>>

\* get_or_create_ticker_id: self.tickers.find_one({"symbol": ticker_symbol})
FindTicker(t) ==
    /\ inflight[t].pc = "find_ticker"
    /\ LET id == MongoTickerIdOf(mongo, inflight[t].key[1])
       IN inflight' = [inflight EXCEPT
                          ![t].ticker_id = id,
                          ![t].pc = IF id # 0 THEN "find_type" ELSE "insert_ticker"]
    /\ last' = [NoCall EXCEPT !.op = "find_ticker"]
    /\ UNCHANGED <<db, mongo, mongoUp, now, fetcher, batch>>

\* get_or_create_ticker_id: self.tickers.insert_one(...).  The unique index on
\* symbol makes it raise DuplicateKeyError when the symbol has been inserted
\* since find_one; store_data catches it and returns False.
InsertTicker(t) ==
    /\ inflight[t].pc = "insert_ticker"
    /\ LET sym == inflight[t].key[1]
           id == NewObjectId(mongo)
       IN IF MongoTickerIdOf(mongo, sym) # 0
          THEN /\ inflight' = [inflight EXCEPT ![t].pc = "done", ![t].ret = FALSE]
               /\ mongo' = mongo
          ELSE /\ inflight' = [inflight EXCEPT ![t].pc = "find_type",
                                               ![t].ticker_id = id]
               /\ mongo' = [mongo EXCEPT !.tickers = @ \cup {[id |-> id, symbol |-> sym]}]
    /\ last' = [NoCall EXCEPT !.op = "insert_ticker"]
    /\ UNCHANGED <<db, mongoUp, now, fetcher, batch>>

\* get_data_type_id: self.data_types.find_one({category, info_type})
FindType(t) ==
    /\ inflight[t].pc = "find_type"
    /\ LET id == MongoDataTypeIdOf(mongo, inflight[t].key[2], inflight[t].key[3])
       IN inflight' = [inflight EXCEPT
                          ![t].data_type_id = id,
                          ![t].pc = IF id # 0 THEN "to_json" ELSE "insert_type"]
    /\ last' = [NoCall EXCEPT !.op = "find_type"]
    /\ UNCHANGED <<db, mongo, mongoUp, now, fetcher, batch>>

\* get_data_type_id: self.data_types.insert_one(...), under the unique index on
\* (category, info_type)
InsertType(t) ==
    /\ inflight[t].pc = "insert_type"
    /\ LET cat == inflight[t].key[2]
           typ == inflight[t].key[3]
           id == NewObjectId(mongo)
       IN IF MongoDataTypeIdOf(mongo, cat, typ) # 0
          THEN /\ inflight' = [inflight EXCEPT ![t].pc = "done", ![t].ret = FALSE]
               /\ mongo' = mongo
          ELSE /\ inflight' = [inflight EXCEPT ![t].pc = "to_json",
                                               ![t].data_type_id = id]
               /\ mongo' = [mongo EXCEPT !.data_types = @ \cup
                                {[id |-> id, category |-> cat, info_type |-> typ]}]
    /\ last' = [NoCall EXCEPT !.op = "insert_type"]
    /\ UNCHANGED <<db, mongoUp, now, fetcher, batch>>

\* data.to_json and the document; then the query phase of update_one: the
\* stock_data document that matches the filter, if there is one
UpsertQuery(t) ==
    /\ inflight[t].pc = "to_json"
    /\ LET c == inflight[t]
           doc == [id |-> 0, ticker_id |-> c.ticker_id, data_type_id |-> c.data_type_id,
                   data |-> ToJson(c.data), fetch_timestamp |-> now,
                   data_timestamp |-> c.data.data_timestamp, source |-> c.data.source]
           hits == {x \in mongo.stock_data :
                       x.ticker_id = c.ticker_id /\ x.data_type_id = c.data_type_id}
       IN IF c.data.multi
          THEN inflight' = [inflight EXCEPT ![t].pc = "done", ![t].ret = FALSE]
          ELSE \E hit \in IF hits = {} THEN {0} ELSE {x.id : x \in hits} :
                  inflight' = [inflight EXCEPT ![t].pc = "write", ![t].doc = doc,
                                               ![t].matched = hit]
    /\ last' = [NoCall EXCEPT !.op = "upsert_query"]
    /\ UNCHANGED <<db, mongo, mongoUp, now, fetcher, batch>>

\* the write phase of update_one: $set on the matched document, or the insert
\* of a new one when the query phase matched none; store_data returns True
UpsertWrite(t) ==
    /\ inflight[t].pc = "write"
    /\ LET c == inflight[t]
           rest == {x \in mongo.stock_data : x.id # c.matched}
       IN mongo' = [mongo EXCEPT !.stock_data =
                       IF c.matched = 0
                       THEN @ \cup {[c.doc EXCEPT !.id = NewObjectId(mongo)]}
                       ELSE rest \cup {[c.doc EXCEPT !.id = c.matched]}]
    /\ inflight' = [inflight EXCEPT ![t].pc = "done", ![t].ret = TRUE]
    /\ last' = [NoCall EXCEPT !.op = "upsert_write"]
    /\ UNCHANGED <<db, mongoUp, now, fetcher, batch>>

\* DatabaseManager.store_data, from entry to return
DbWholeStoreData(t) ==
    /\ fetcher.db_manager = "sqlite"
    /\ inflight[t].pc = "call"
    /\ \E r \in {DbStoreData(db, inflight[t].key, inflight[t].data,
                              inflight[t].data.data_timestamp,
                              inflight[t].data.source, now)} :
          /\ db' = r.st
          /\ inflight' = [inflight EXCEPT ![t].pc = "done", ![t].ret = r.ret]
    /\ last' = [NoCall EXCEPT !.op = "whole_store_data"]
    /\ UNCHANGED <<mongo, mongoUp, now, fetcher, batch>>

ConcNext ==
    \/ \E t \in Threads : MongoEnter(t)
    \/ \E t \in Threads : FindTicker(t)
    \/ \E t \in Threads : InsertTicker(t)
    \/ \E t \in Threads : FindType(t)
    \/ \E t \in Threads : InsertType(t)
    \/ \E t \in Threads : UpsertQuery(t)
    \/ \E t \in Threads : UpsertWrite(t)
    \/ \E t \in Threads : DbWholeStoreData(t)
    \/ Tick

\* two callers in store_data on the same key
ConcSpec == ConcInit /\ [][ConcNext]_vars

(***************************************************************************)
(* get_multiple_data: one worker of the ThreadPoolExecutor per symbol,     *)
(* each in get_data on the fetcher's single DatabaseManager.  self.conn    *)
(* and self.cursor are attributes of the manager, read and written by      *)
(* every worker; a step is one read or write of them.  A sqlite3           *)
(* connection is created with check_same_thread at its default: used from  *)
(* a thread that did not create it, it raises ProgrammingError.            *)
(*   phase 1, 2: the two connect ... conn.close() blocks of data_exists    *)
(*   phase 3:    get_stored_data                                           *)
(***************************************************************************)
PoolKey(sym) == <<sym, "General Information", "Basic Info">>

\* a worker that has just been handed fetch_ticker_data(ticker)
PoolWorker(sym) ==
    [pc |-> "start", key |-> PoolKey(sym), phase |-> 1, conn |-> 0,
     opened |-> {}, ret |-> "pending", foreign |-> FALSE]

\* stock_data.db with a dataset fetched at StartTime for each symbol of syms
PoolFile(syms) ==
    LET s == InitializeDatabase(EmptyFile)
        ids == [sym \in Symbols |-> IF sym = "AAPL" THEN 1 ELSE 2]
    IN [s EXCEPT !.tickers = {[id |-> ids[sym], symbol |-> sym] : sym \in syms},
                 !.ticker_seq = 2,
                 !.stock_data =
                    {[ticker_id |-> ids[sym],
                      data_type_id |-> DataTypeIdOf(s, "General Information", "Basic Info"),
                      data |-> PickleCompress(FetchedFrame(PoolKey(sym), StartTime)),
                      fetch_timestamp |-> StartTime, data_timestamp |-> NoTs,
                      source |-> SourceFor(PoolKey(sym)),
                      compressed |-> 1, is_pickled |-> 1] : sym \in syms}]

PoolInit ==
    /\ fetcher = [db_manager |-> "sqlite", cache |-> {}, calls |-> 0, batches |-> 0]
    /\ db \in {PoolFile(syms) : syms \in SUBSET Symbols}
    /\ mongo = [tickers |-> {}, data_types |-> {}, stock_data |-> {}]
    /\ mongoUp = TRUE
    /\ now = StartTime
    /\ batch = NoBatch
    /\ last = NoCall
    /\ inflight \in {[t \in Threads |-> PoolWorker(ticker_symbols[t])] :
                        ticker_symbols \in [Threads -> Symbols]}

\* the handle is one this worker's thread created
Owns(t, h) == h \in inflight[t].opened

\* sqlite3.connect returns a connection no one has seen before
NewHandle == Max({0} \cup UNION {inflight[t].opened : t \in Threads}) + 1

\* get_data: the cache test of data_exists
PoolStart(t) ==
    /\ inflight[t].pc = "start"
    /\ inflight' = [inflight EXCEPT
                       ![t].pc = "open",
                       ![t].phase = IF inflight[t].key \in fetcher.cache THEN 3 ELSE 1]
    /\ last' = [NoCall EXCEPT !.op = "pool_start"]
    /\ UNCHANGED <<db, mongo, mongoUp, now, fetcher, batch>>

\* connect: self.conn = sqlite3.connect(self.db_name)
PoolOpen(t) ==
    /\ inflight[t].pc = "open"
    /\ db' = [db EXCEPT !.conn = NewHandle, !.open = @ \cup {NewHandle}]
    /\ inflight' = [inflight EXCEPT ![t].pc = "pragma",
                                    ![t].opened = @ \cup {NewHandle}]
    /\ last' = [NoCall EXCEPT !.op = "pool_open"]
    /\ UNCHANGED <<mongo, mongoUp, now, fetcher, batch>>

\* connect: self.conn.execute("PRAGMA foreign_keys = ON") on whatever
\* self.conn is by now; on an exception self.conn = self.cursor = None and
\* connect returns None
PoolPragma(t) ==
    /\ inflight[t].pc = "pragma"
    /\ IF db.conn # 0 /\ Owns(t, db.conn)
       THEN /\ inflight' = [inflight EXCEPT ![t].pc = "cursor"]
            /\ db' = db
       ELSE /\ inflight' = [inflight EXCEPT ![t].pc = "use", ![t].conn = 0,
                                            ![t].foreign = @ \/ db.conn # 0]
            /\ db' = [db EXCEPT !.conn = 0, !.cursor = 0]
    /\ last' = [NoCall EXCEPT !.op = "pool_pragma"]
    /\ UNCHANGED <<mongo, mongoUp, now, fetcher, batch>>

\* connect: self.cursor = self.conn.cursor()
PoolCursor(t) ==
    /\ inflight[t].pc = "cursor"
    /\ IF db.conn # 0 /\ Owns(t, db.conn)
       THEN /\ inflight' = [inflight EXCEPT ![t].pc = "return"]
            /\ db' = [db EXCEPT !.cursor = db.conn]
       ELSE /\ inflight' = [inflight EXCEPT ![t].pc = "use", ![t].conn = 0,
                                            ![t].foreign = @ \/ db.conn # 0]
            /\ db' = [db EXCEPT !.conn = 0, !.cursor = 0]
    /\ last' = [NoCall EXCEPT !.op = "pool_cursor"]
    /\ UNCHANGED <<mongo, mongoUp, now, fetcher, batch>>

\* connect: return self.conn
PoolReturn(t) ==
    /\ inflight[t].pc = "return"
    /\ inflight' = [inflight EXCEPT ![t].pc = "use", ![t].conn = db.conn]
    /\ last' = [NoCall EXCEPT !.op = "pool_return"]
    /\ UNCHANGED <<db, mongo, mongoUp, now, fetcher, batch>>

\* data_exists: cursor = conn.cursor(), the SELECTs and conn.close() on the
\* value connect returned; any exception makes data_exists return False and
\* get_data ask the provider
PoolCheck(t) ==
    /\ inflight[t].pc = "use"
    /\ inflight[t].phase \in {1, 2}
    /\ LET w == inflight[t]
           rows == DbRowsOf(db, w.key)
           fresh == \E r \in rows : IsFresh(r.fetch_timestamp, DefaultMaxAgeHours, now)
       IN IF w.conn = 0 \/ ~Owns(t, w.conn)
          THEN /\ inflight' = [inflight EXCEPT ![t].pc = "done", ![t].ret = "miss",
                                               ![t].foreign = @ \/ w.conn # 0]
               /\ db' = db
          ELSE /\ db' = [db EXCEPT !.open = @ \ {w.conn}]
               /\ inflight' =
                     IF w.phase = 1
                     THEN [inflight EXCEPT ![t].pc = "open", ![t].phase = 2]
                     ELSE IF fresh
                     THEN [inflight EXCEPT ![t].pc = "open", ![t].phase = 3]
                     ELSE [inflight EXCEPT ![t].pc = "done", ![t].ret = "miss"]
    /\ last' = [NoCall EXCEPT !.op = "pool_check"]
    /\ UNCHANGED <<mongo, mongoUp, now, fetcher, batch>>

\* get_stored_data: self.cursor.execute(...) ... return data, or None from the
\* except clause
PoolRead(t) ==
    /\ inflight[t].pc = "use"
    /\ inflight[t].phase = 3
    /\ LET w == inflight[t]
           mine == db.cursor # 0 /\ Owns(t, db.cursor) /\ db.cursor \in db.open
       IN inflight' = [inflight EXCEPT
                          ![t].pc = "close",
                          ![t].ret = IF mine /\ Keep(DbGetStoredData(db, w.key).ret)
                                     THEN "hit" ELSE "miss",
                          ![t].foreign = @ \/ (db.cursor # 0 /\ ~Owns(t, db.cursor))]
    /\ last' = [NoCall EXCEPT !.op = "pool_read"]
    /\ UNCHANGED <<db, mongo, mongoUp, now, fetcher, batch>>

\* get_stored_data, finally: self.close().  Closing a connection of another
\* thread raises from the finally clause: get_data raises and
\* fetch_ticker_data returns (ticker, None)
PoolClose(t) ==
    /\ inflight[t].pc = "close"
    /\ IF db.conn = 0
       THEN /\ inflight' = [inflight EXCEPT ![t].pc = "done"]
            /\ db' = db
       ELSE IF Owns(t, db.conn)
       THEN /\ inflight' = [inflight EXCEPT ![t].pc = "done"]
            /\ db' = [db EXCEPT !.open = @ \ {db.conn}, !.conn = 0, !.cursor = 0]
       ELSE /\ inflight' = [inflight EXCEPT ![t].pc = "done", ![t].ret = "raised",
                                            ![t].foreign = TRUE]
            /\ db' = db
    /\ last' = [NoCall EXCEPT !.op = "pool_close"]
    /\ UNCHANGED <<mongo, mongoUp, now, fetcher, batch>>

PoolNext ==
    \/ \E t \in Threads : PoolStart(t)
    \/ \E t \in Threads : PoolOpen(t)
    \/ \E t \in Threads : PoolPragma(t)
    \/ \E t \in Threads : PoolCursor(t)
    \/ \E t \in Threads : PoolReturn(t)
    \/ \E t \in Threads : PoolCheck(t)
    \/ \E t \in Threads : PoolRead(t)
    \/ \E t \in Threads : PoolClose(t)

\* the workers of one get_multiple_data call
PoolSpec == PoolInit /\ [][PoolNext]_vars

(***************************************************************************)
(* BatchProcessor.process_tickers.  batch holds the call in progress:      *)
(*   pc         "history": the batched download loop; "items": the loop    *)
(*              over the tickers; "done": the summary has been returned    *)
(*   c, t, j    the chunk, the ticker and the pair the loops are at        *)
(*   downloads  the chunks yf.download was called for, in call order       *)
(*   calls      the items _get_data was called for                         *)
(*   stored     results["data_points_stored"]                              *)
(***************************************************************************)
NoProc ==
    [active |-> FALSE, tickers |-> <<>>, force |-> FALSE, mongodb |-> FALSE,
     pc |-> "idle", c |-> 1, t |-> 1, j |-> 1, downloads |-> <<>>, calls |-> {},
     stored |-> 0, successful |-> 0]

\* a ticker list of n symbols
TickerList(n) == [k \in 1..n |-> IF k % 2 = 1 THEN "AAPL" ELSE "MSFT"]

\* lists that fill no chunk, one chunk, and up to MaxChunks chunks
ProcLists == {TickerList(n) : n \in {0, 1, 2} \cup {(c - 1) * BatchSize + 1 : c \in 2..MaxChunks}}

\* BatchProcessor(mongodb_uri): stock_data.db is initialised in __init__
ProcInit ==
    /\ fetcher = [db_manager |-> "sqlite", cache |-> {}, calls |-> 0, batches |-> 0]
    /\ db \in {InitializeDatabase(EmptyFile),
               FileWith(KBasic, PickleCompress(FetchedFrame(KBasic, StartTime)), StartTime)}
    /\ mongo = [tickers |-> {}, data_types |-> {}, stock_data |-> {}]
    /\ mongoUp = TRUE
    /\ now = StartTime
    /\ batch \in {[NoProc EXCEPT !.mongodb = b] : b \in BOOLEAN}
    /\ last = NoCall
    /\ inflight = NoCalls

\* process_tickers(tickers, force_refresh) is called
ProcStart(tickers, force_refresh) ==
    /\ batch.pc = "idle"
    /\ batch' = [batch EXCEPT !.active = TRUE, !.tickers = tickers,
                              !.force = force_refresh,
                              !.pc = IF ChunkCount(tickers) = 0 THEN "items" ELSE "history"]
    /\ last' = [NoCall EXCEPT !.op = "proc_start"]
    /\ UNCHANGED <<inflight, db, mongo, mongoUp, now, fetcher>>

\* one pass of the download loop: yf.download(tickers=batch, ...) and the
\* "for ticker in batch" loop.  The try statement encloses the whole for
\* loop, so an exception of yf.download ends the loop.
ProcHistory(outcome) ==
    /\ batch.pc = "history"
    /\ LET chunk == ProcChunk(batch.tickers, batch.c)
           lastChunk == batch.c = ChunkCount(batch.tickers)
           start == [db |-> db, mongo |-> mongo, stored |-> batch.stored]
       IN \E r \in {IF outcome = "ok"
                    THEN StoreHistory(start, chunk, 1, mongoUp, batch.mongodb, now)
                    ELSE start} :
             /\ db' = r.db
             /\ mongo' = r.mongo
             /\ batch' = [batch EXCEPT
                             !.downloads = Append(@, batch.c),
                             !.stored = r.stored,
                             !.c = @ + 1,
                             !.pc = IF outcome = "raise" \/ lastChunk
                                    THEN "items" ELSE "history"]
    /\ last' = [NoCall EXCEPT !.op = "proc_history", !.outcome = outcome,
                              !.called = TRUE]
    /\ UNCHANGED <<inflight, mongoUp, now, fetcher>>

\* one pass of "for info_type in info_types" for the ticker the loop is at:
\* Price History is skipped, every other item is fetched with _get_data,
\* whatever force_refresh is, and stored when it is not None or empty
ProcItem(outcome) ==
    /\ batch.pc = "items"
    /\ batch.t <= Len(batch.tickers)
    /\ LET pair == ProcPairs[batch.j]
           key == <<batch.tickers[batch.t], pair[1], pair[2]>>
           skipped == pair = PriceHistory
           data == ProcFrame(outcome, now)
           kept == ~skipped /\ outcome # "raise" /\ Keep(data)
           lastOfTicker == batch.j = Len(ProcPairs)
       IN /\ \E r \in {IF kept
                       THEN StoreBoth(db, mongo, mongoUp, batch.mongodb, key, data, now)
                       ELSE [db |-> db, mongo |-> mongo]} :
                /\ db' = r.db
                /\ mongo' = r.mongo
          /\ batch' = [batch EXCEPT
                          !.calls = IF skipped THEN @ ELSE @ \cup {key},
                          !.stored = IF kept THEN @ + 1 ELSE @,
                          !.successful = IF batch.j = 1 THEN @ + 1 ELSE @,
                          !.j = IF lastOfTicker THEN 1 ELSE @ + 1,
                          !.t = IF lastOfTicker THEN @ + 1 ELSE @]
          /\ last' = [NoCall EXCEPT !.op = "proc_item", !.key = key,
                                    !.called = ~skipped,
                                    !.outcome = IF skipped THEN "" ELSE outcome,
                                    !.stored = kept]
    /\ UNCHANGED <<inflight, mongoUp, now, fetcher>>

\* return results
ProcReturn ==
    /\ batch.pc = "items"
    /\ batch.t > Len(batch.tickers)
    /\ batch' = [batch EXCEPT !.pc = "done", !.active = FALSE]
    /\ last' = [NoCall EXCEPT !.op = "proc_return", !.count = batch.stored]
    /\ UNCHANGED <<inflight, db, mongo, mongoUp, now, fetcher>>

ProcNext ==
    \/ \E tickers \in ProcLists, force_refresh \in BOOLEAN :
          ProcStart(tickers, force_refresh)
    \/ \E outcome \in ProviderOutcomes : ProcHistory(outcome)
    \/ \E outcome \in ProviderOutcomes : ProcItem(outcome)
    \/ ProcReturn

\* one BatchProcessor and one call of process_tickers
ProcSpec == ProcInit /\ [][ProcNext]_vars

(***************************************************************************)
(* The two loops that cut a ticker list into chunks, pass by pass: the     *)
(* export loop of app.py over max_batch_tickers and the download loop of   *)
(* process_tickers over batch_size.  batch holds the list, the size, the   *)
(* number of passes made and the chunks of these passes, in order.         *)
(***************************************************************************)
\* the ticker lists typed into the app
ExportLists == UNION {[1..n -> Symbols] : n \in 1..MaxListLen}

ChunkInit ==
    /\ fetcher = [db_manager |-> "sqlite", cache |-> {}, calls |-> 0, batches |-> 0]
    /\ db = InitializeDatabase(EmptyFile)
    /\ mongo = [tickers |-> {}, data_types |-> {}, stock_data |-> {}]
    /\ mongoUp = TRUE
    /\ now = StartTime
    /\ batch \in
          {[active |-> FALSE, loop |-> "export", tickers |-> l, max |-> m, i |-> 0,
            chunks |-> <<>>] : l \in ExportLists, m \in 1..MaxBatchTickers}
          \cup
          {[active |-> FALSE, loop |-> "download", tickers |-> l, max |-> BatchSize,
            i |-> 0, chunks |-> <<>>] : l \in ExportLists \cup ProcLists}
    /\ last = NoCall
    /\ inflight = NoCalls

\* app.py: one pass of "for i in range(batch_count)"
ExportPass ==
    /\ batch.loop = "export"
    /\ batch.i < ExportBatchCount(Len(batch.tickers), batch.max)
    /\ batch' = [batch EXCEPT
                    !.chunks = Append(@, CurrentBatch(batch.tickers, batch.max, batch.i)),
                    !.i = @ + 1]
    /\ last' = [NoCall EXCEPT !.op = "export_pass"]
    /\ UNCHANGED <<inflight, db, mongo, mongoUp, now, fetcher>>

\* process_tickers: one pass of "for i in range(0, len(tickers), batch_size)"
DownloadPass ==
    /\ batch.loop = "download"
    /\ batch.i < ChunkCount(batch.tickers)
    /\ batch' = [batch EXCEPT
                    !.chunks = Append(@, ProcChunk(batch.tickers, batch.i + 1)),
                    !.i = @ + 1]
    /\ last' = [NoCall EXCEPT !.op = "download_pass"]
    /\ UNCHANGED <<inflight, db, mongo, mongoUp, now, fetcher>>

ChunkNext == ExportPass \/ DownloadPass

\* the chunks of a ticker list
ChunkSpec == ChunkInit /\ [][ChunkNext]_vars


(***************************************************************************)
(* Views of the stored state.                                              *)
(***************************************************************************)

\* the stock_data rows of the SQLite file, each with the key it is stored under
DbEntries(d) ==
    {[key |-> <<x[2].symbol, x[3].category, x[3].name>>, row |-> x[1]] :
        x \in {y \in d.stock_data \X d.tickers \X d.data_types :
                  y[1].ticker_id = y[2].id /\ y[1].data_type_id = y[3].id}}

\* the stock_data documents of MongoDB, each with the key it is stored under
MongoEntries(m) ==
    {[key |-> <<x[2].symbol, x[3].category, x[3].info_type>>, row |-> x[1]] :
        x \in {y \in m.stock_data \X m.tickers \X m.data_types :
                  y[1].ticker_id = y[2].id /\ y[1].data_type_id = y[3].id}}

EntriesIn(b, d, m) == IF b = "sqlite" THEN DbEntries(d) ELSE MongoEntries(m)

\* the stored entries of the configured db_manager
Entries == EntriesIn(fetcher.db_manager, db, mongo)
EntriesOf(key) == {e \in Entries : e.key = key}

\* what store_data writes as the payload of a dataset
Payload(b, data) == IF b = "sqlite" THEN PickleCompress(data) ELSE ToJson(data)

\* a plain DataFrame: one that both backends can serialize
Plain(data) == IsDataFrame(data) /\ ~data.multi

\* what get_stored_data would return now
Stored(key) == GetOn(fetcher.db_manager, db, mongo, mongoUp, key).ret

FetchOps == {"batch_item", "fetch_data"}

(***************************************************************************)
(* Properties.                                                             *)
(***************************************************************************)

\* C1: round trip.  A get_stored_data that follows a store_data of dataset D
\* with metadata M on the same key returns D with M (checked for plain
\* DataFrames while the server is reachable).
RoundTrip ==
    [][(/\ last.op = "store_data" /\ Plain(last.arg) /\ mongoUp
        /\ last'.op = "get_stored_data" /\ last'.key = last.key)
       => (/\ Content(last'.ret) = Content(last.arg)
           /\ Metadata(last'.ret) = Metadata(last.arg))]_vars

\* C2: upsert uniqueness.  No key ever has more than one stored entry, and
\* after two store_data calls in a row on one key, with D1 and then D2, the
\* key has exactly one stored entry and it holds D2.
UpsertUniqueness ==
    [][/\ \A key \in CallKeys :
            Cardinality({e \in EntriesIn(fetcher.db_manager, db', mongo') : e.key = key}) <= 1
       /\ (/\ last.op = "store_data" /\ Plain(last.arg)
           /\ last'.op = "store_data" /\ Plain(last'.arg)
           /\ last'.key = last.key /\ mongoUp)
          => LET es == {e \in EntriesIn(fetcher.db_manager, db', mongo') :
                           e.key = last'.key}
             IN /\ Cardinality(es) = 1
                /\ \A e \in es : e.row.data = Payload(fetcher.db_manager, last'.arg)]_vars

\* C3: idempotent delete.  Two delete_data calls in a row on one key both
\* return True, whether or not the key was ever stored, and the second
\* leaves the stored entries as the first left them.
IdempotentDelete ==
    [][(/\ last.op = "delete_data" /\ last'.op = "delete_data"
        /\ last'.key = last.key /\ mongoUp)
       => (/\ last.ok /\ last'.ok
           /\ EntriesIn(fetcher.db_manager, db', mongo') = Entries)]_vars

\* C4: freshness decision.  data_exists(key, max_age) returns True exactly
\* when the backend holds an entry for the key whose age is at most max_age
\* (stated for the SQLite db_manager, the one data_exists can query).
FreshnessDecision ==
    (last.op = "data_exists" /\ fetcher.db_manager = "sqlite")
        => (last.ok <=> \E e \in EntriesOf(last.key) :
                            IsFresh(e.row.fetch_timestamp, last.max_age, now))

\* C5: always-stale exception.  With force_refresh false, a News item is
\* always fetched from the provider, in get_data and in every item of
\* batch_process_tickers, and never answered from the stored dataset.
AlwaysStaleNews ==
    (/\ last.op \in FetchOps /\ last.key[3] = "News"
     /\ (last.op = "batch_item" => ~batch.force))
        => (last.called /\ ~last.from_cache)

\* C6 as claimed: when the provider returns a zero-row dataset, the key is
\* written and get_stored_data returns an empty dataset, not None.
EmptyResultStored ==
    (last.op \in FetchOps /\ last.outcome = "empty" /\ mongoUp)
        => (IsDataFrame(Stored(last.key)) /\ Empty(Stored(last.key)))

\* C6 as amended: when the provider returns a zero-row dataset, store_data is
\* not called, the stored entries and the registry stay as they were, and
\* get_stored_data returns what it returned before the fetch.
EmptyResultNotStored ==
    [][(last'.op \in FetchOps /\ last'.outcome = "empty")
       => (/\ ~last'.stored
           /\ EntriesIn(fetcher.db_manager, db', mongo') = Entries
           /\ db'.tickers = db.tickers
           /\ mongo' = mongo
           /\ GetOn(fetcher.db_manager, db', mongo', mongoUp', last'.key).ret
                 = Stored(last'.key))]_vars

\* a zero-row answer for a key that has a stored entry, which stays
EmptyResultNotStoredWitness ==
    /\ last.op = "batch_item" /\ last.outcome = "empty"
    /\ EntriesOf(last.key) # {}
    /\ ~IsNone(Stored(last.key))

\* a report of the callback and an entry of the result are about one item
SameItem(report, r, e) ==
    /\ r.ticker = report.ticker
    /\ e.category = report.category
    /\ e.info_type = report.info_type

\* C7 as claimed: when the adapter call of an item raises in
\* batch_process_tickers, store_data is not called, the stored entries and
\* the registry stay as they were, the callback gets one report for the item,
\* with success false, and no item reported as failed is in the returned
\* result.
FailedFetchAbsent ==
    [][/\ (last'.op = "batch_item" /\ last'.raised)
          => (/\ ~last'.stored
              /\ EntriesIn(fetcher.db_manager, db', mongo') = Entries
              /\ db'.tickers = db.tickers
              /\ mongo' = mongo
              /\ batch.cb =>
                    batch'.log = Append(batch.log,
                        [ticker |-> last'.key[1], category |-> last'.key[2],
                         info_type |-> last'.key[3], success |-> FALSE,
                         from_cache |-> FALSE]))
       /\ last'.op = "batch_return"
          => \A n \in 1..Len(last'.log) :
                ~last'.log[n].success
                   => \A r \in last'.results : \A e \in r.data :
                         ~SameItem(last'.log[n], r, e)]_vars

\* C7 as amended: when the adapter call of an item raises, store_data is not
\* called, the stored entries and the registry stay as they were, the pass
\* adds no entry for the item to the map of its symbol, and the callback gets
\* one report for the item, with success false; an item reported as failed is
\* in the returned result only if another pass over the same symbol reported
\* it as a success.
FailedFetchNeverStored ==
    [][/\ (last'.op = "batch_item" /\ last'.raised)
          => (/\ ~last'.stored
              /\ EntriesIn(fetcher.db_manager, db', mongo') = Entries
              /\ db'.tickers = db.tickers
              /\ mongo' = mongo
              /\ \A e \in last'.td :
                    ~(e.category = last'.key[2] /\ e.info_type = last'.key[3])
              /\ batch.cb =>
                    batch'.log = Append(batch.log,
                        [ticker |-> last'.key[1], category |-> last'.key[2],
                         info_type |-> last'.key[3], success |-> FALSE,
                         from_cache |-> FALSE]))
       /\ last'.op = "batch_return"
          => \A n \in 1..Len(last'.log) :
                (/\ ~last'.log[n].success
                 /\ \E r \in last'.results : \E e \in r.data :
                       SameItem(last'.log[n], r, e))
                   => \E k \in 1..Len(last'.log) :
                         /\ last'.log[k].success
                         /\ last'.log[k].ticker = last'.log[n].ticker
                         /\ last'.log[k].category = last'.log[n].category
                         /\ last'.log[k].info_type = last'.log[n].info_type]_vars

\* the adapter raises for an item whose key has a stored entry, with a callback
FailedFetchNeverStoredWitness ==
    /\ last.op = "batch_item" /\ last.raised /\ batch.cb
    /\ EntriesOf(last.key) # {}
    /\ Len(batch.log) > 0 /\ ~batch.log[Len(batch.log)].success

Failures(log) == Cardinality({n \in 1..Len(log) : ~log[n].success})

HonestPutResult ==
    [][last'.op = "store_data"
       => LET b == fetcher.db_manager
              after == EntriesIn(b, db', mongo')
              got == GetOn(b, db', mongo', mongoUp', last'.key).ret
          IN /\ last'.ok
                => /\ \E e \in after :
                         e.key = last'.key /\ e.row.data = Payload(b, last'.arg)
                   /\ IsDataFrame(got) /\ got.rows = last'.arg.rows
             /\ ~last'.ok => after = Entries]_vars

\* a store_data that returned True, with the entry it wrote
HonestPutResultWitness ==
    /\ last.op = "store_data" /\ last.ok
    /\ \E e \in EntriesOf(last.key) : e.row.data = Payload(fetcher.db_manager, last.arg)

\* C10: get distinguishes corrupt from absent.  For a key whose stored entry
\* cannot be decompressed or unpickled, get_stored_data does not return None,
\* the answer it gives for a key that was never stored.
CorruptIsNotAbsent ==
    (/\ last.op = "get_stored_data" /\ fetcher.db_manager = "sqlite"
     /\ \E e \in EntriesOf(last.key) : ~Decode(e.row).ok)
        => ~IsNone(last.ret)

\* C11: deterministic listing.  get_available_data returns one row per stored
\* key, each with the key's fetch_timestamp, data_timestamp and source, and
\* the rows are in ascending order of symbol, then category, then info_type.
DeterministicListing ==
    (last.op = "get_available_data" /\ mongoUp)
        => LET rows == last.listing
           IN /\ Len(rows) = Cardinality(Entries)
              /\ \A e \in Entries : \E n \in 1..Len(rows) :
                    /\ Len(rows[n]) = 6
                    /\ <<rows[n][1], rows[n][2], rows[n][3]>> = e.key
                    /\ rows[n][4] = e.row.fetch_timestamp
                    /\ rows[n][5] = e.row.data_timestamp
                    /\ rows[n][6] = e.row.source
              /\ \A a, b \in 1..Len(rows) : a <= b => KeyLeq(rows[a], rows[b])

\* C12: full clear.  After a clear_database that returns True, get_stored_data
\* returns None for every key and get_stock_metadata returns None for every
\* symbol, and the categories and data types are the ones from before the call.
FullClear ==
    [][(last'.op = "clear_database" /\ last'.ok)
       => (/\ EntriesIn(fetcher.db_manager, db', mongo') = {}
           /\ \A key \in CallKeys :
                 IsNone(GetOn(fetcher.db_manager, db', mongo', mongoUp', key).ret)
           /\ \A sym \in Symbols :
                 ~MetadataOn(fetcher.db_manager, db', mongo', mongoUp', sym).ret.found
           /\ db'.data_categories = db.data_categories
           /\ db'.data_types = db.data_types
           /\ mongo'.data_types = mongo.data_types)]_vars

\* C13: cache reuse.  When fetch_data fetched a non-News key from the provider
\* and store_data persisted it, a fetch_data of the same key that follows at
\* once makes no provider call and returns the stored dataset.
CacheReuse ==
    [][(/\ last.op = "fetch_data" /\ last.called /\ last.stored /\ last.ok
        /\ last.key[3] # "News"
        /\ last'.op = "fetch_data" /\ last'.key = last.key)
       => (/\ ~last'.called
           /\ last'.from_cache
           /\ last'.ret = Stored(last.key))]_vars

\* C14  Guaranteed delivery: when the provider answers an item of
\* batch_process_tickers with a non-empty dataset and the store_data that
\* follows fails, the dataset is in the result for the item and the failure
\* of store_data is reported as a warning.
GuaranteedDelivery ==
    (/\ last.op = "batch_item" /\ last.called /\ last.outcome = "ok"
     /\ last.stored /\ ~last.ok)
    => (/\ \E e \in last.td : /\ e.category = last.key[2]
                              /\ e.info_type = last.key[3]
                              /\ e.data = last.ret
        /\ last.warned)

\* C15  Progress reporting is total: when a callback is supplied, every
\* (symbol, category, info_type) that batch_process_tickers processes gets
\* at least one callback call, whatever the outcome of the item.
ProgressReportingTotal ==
    [][(/\ batch.active /\ batch.cb
        /\ last'.op = "batch_item")
       => Len(batch'.log) > Len(batch.log)]_vars

\* C16  Processed symbols always appear: every symbol of the input list of
\* batch_process_tickers is a key of the result it returns, a symbol with no
\* successful item being mapped to an empty map.
ProcessedSymbolsAppear ==
    [][last'.op = "batch_return"
       => \A n \in 1..Len(batch.syms) :
             \E e \in last'.results : e.ticker = batch.syms[n]]_vars

\* C17  Startup fallback: when MongoDB is selected and the server cannot be
\* reached while the manager is initialised, the db_manager of the session is
\* the SQLite DatabaseManager and a warning is shown.
StartupFallback ==
    (/\ last.op = "startup" /\ last.db_type = "MongoDB (Cloud)" /\ ~mongoUp)
    => (/\ fetcher.db_manager = "sqlite"
        /\ \E n \in 1..Len(last.messages) : last.messages[n] = "warning")

\* C18  Backend parity: after every call of a sequence applied to a
\* DatabaseManager and a MongoDBManager that started empty, the two have
\* returned the same outcome and hold the same stored keys and the same
\* registered symbols.
BackendParity ==
    last.both # <<>>
    => (/\ last.both[1] = last.both[2]
        /\ {e.key : e \in DbEntries(db)} = {e.key : e \in MongoEntries(mongo)}
        /\ {t.symbol : t \in db.tickers} = {t.symbol : t \in mongo.tickers})

\* C20  Scoped connection: every DatabaseManager operation runs its
\* statements on the connection it opened itself and closes that connection
\* when it returns, whatever the path.
ScopedConnection ==
    (/\ fetcher.db_manager = "sqlite"
     /\ last.op \in {"store_data", "get_stored_data", "delete_data", "clear_database",
                     "get_available_data", "get_stock_metadata"})
    => last.scoped

\* the stored entry is, in full, what the call of t wrote
WrittenBy(e, t) ==
    IF fetcher.db_manager = "sqlite"
    THEN /\ e.row.data = PickleCompress(inflight[t].data)
         /\ e.row.source = inflight[t].data.source
    ELSE e.row = [inflight[t].doc EXCEPT !.id = e.row.id]

\* C19  Concurrent put on one key: when two concurrent store_data calls on
\* the same key have both returned, whatever the interleaving, exactly one
\* entry is stored for the key and it is in full the dataset and metadata of
\* one of the two calls.
ConcurrentPut ==
    (\A t \in Threads : inflight[t].pc = "done")
    => (/\ Cardinality(EntriesOf(inflight[1].key)) = 1
        /\ \A e \in EntriesOf(inflight[1].key) : \E t \in Threads : WrittenBy(e, t))

\* the symbols registered in the configured db_manager
RegistrySymbols ==
    IF fetcher.db_manager = "sqlite" THEN {t.symbol : t \in db.tickers}
    ELSE {t.symbol : t \in mongo.tickers}

\* C22  Registry creation: a store_data call that returns False creates no
\* registry entry, so that a symbol is registered only by a store_data call
\* that succeeded.
RegistryCreation ==
    [][(last'.op = "store_data" /\ ~last'.ok)
       => RegistrySymbols' = RegistrySymbols]_vars

\* the stored datasets, the symbol registry and the taxonomy of both backends
StoredState ==
    <<db.stock_data, db.tickers, db.data_categories, db.data_types,
      mongo.stock_data, mongo.tickers, mongo.data_types>>

\* C23  Read paths are pure: get_stored_data, get_available_data,
\* get_stock_metadata and data_exists leave the stored datasets, the symbol
\* registry and the taxonomy as they were, in every state of the backend.
ReadPathsPure ==
    [][last'.op \in {"get_stored_data", "get_available_data", "get_stock_metadata",
                     "data_exists"}
       => StoredState' = StoredState]_vars

\* the place of a reported item in the taxonomy
TaxIndex(r) == CHOOSE n \in 1..Len(Taxonomy) : Taxonomy[n] = <<r.category, r.info_type>>

\* C28 as stated: within one batch_process_tickers call the callbacks that
\* name one symbol are invoked in taxonomy order.
CallbackOrderBySymbol ==
    \A p, q \in 1..Len(batch.log) :
        (p < q /\ batch.log[p].ticker = batch.log[q].ticker)
        => TaxIndex(batch.log[p]) < TaxIndex(batch.log[q])

\* C28  Deterministic callback order: for every entry of the symbol list, the
\* items are processed in taxonomy order and a callback is invoked, after all
\* the earlier ones, for the item being processed, whatever the outcome.
CallbackOrderByPass ==
    [][last'.op = "batch_item"
       => (/\ \/ batch'.i = batch.i /\ batch'.j = batch.j + 1
              \/ batch.j = Len(Taxonomy) /\ batch'.i = batch.i + 1 /\ batch'.j = 1
           /\ \/ batch'.log = batch.log
              \/ /\ Len(batch'.log) = Len(batch.log) + 1
                 /\ SubSeq(batch'.log, 1, Len(batch.log)) = batch.log
                 /\ batch'.log[Len(batch'.log)].ticker = batch.syms[batch.i]
                 /\ TaxIndex(batch'.log[Len(batch'.log)]) = batch.j)]_vars

\* three callbacks in: a cache hit or fresh success and a failure among them
CallbackOrderByPassWitness ==
    /\ batch.active
    /\ Len(batch.log) = 3
    /\ batch.log[1].success /\ ~batch.log[2].success
    /\ batch.log[3].ticker = batch.log[1].ticker

\* the entry stored for key has a fetch_timestamp that is missing or that
\* cannot be parsed
BadTimestamp(key) ==
    \E e \in EntriesOf(key) : e.row.fetch_timestamp \in {NoTs, BadTs}

\* C29  Bad timestamp means stale: when the entry stored for a key has a
\* missing or unparsable fetch_timestamp, data_exists returns False, and
\* get_data without force_refresh goes to the provider instead of returning
\* the stored dataset.
BadTimestampMeansStale ==
    [][BadTimestamp(last'.key)
       => (/\ last'.op = "data_exists" => ~last'.ok
           /\ last'.op = "fetch_data" => last'.called)]_vars

\* C30: in a run of batch_process_tickers with a callback, every pass of the
\* loop body leaves its item in the ticker's result exactly when it reported
\* the item with success = True
ResultCallbackAgree ==
    [][(last'.op = "batch_item" /\ batch.cb) =>
          ((\E e \in last'.td : /\ e.category = last'.key[2]
                                /\ e.info_type = last'.key[3])
             <=> /\ Len(batch'.log) = Len(batch.log) + 1
                 /\ batch'.log[Len(batch'.log)].success)]_vars

\* what the cache lookup of get_data gives for key when no other worker runs
LookupAlone(key) ==
    IF /\ DataExists(fetcher, db, key, DefaultMaxAgeHours, now).ret
       /\ Keep(DbGetStoredData(db, key).ret)
    THEN "hit" ELSE "miss"

\* C21: a worker of get_multiple_data never uses or closes a connection or
\* cursor another worker opened, and its cache lookup ends as it would alone
NoHandleSharing ==
    \A t \in Threads :
       inflight[t].pc = "done" =>
          /\ ~inflight[t].foreign
          /\ inflight[t].ret = LookupAlone(inflight[t].key)

\* the chunks of the call for which yf.download was called n times
DownloadedTimes(c) ==
    Cardinality({n \in 1..Len(batch.downloads) : batch.downloads[n] = c})

\* C24: when process_tickers has returned, the batched download was attempted
\* for every chunk of the list and _get_data was called for every per-symbol
\* item of every ticker, whichever downloads raised
FailedChunkDoesNotAbort ==
    batch.pc = "done" =>
       /\ \A c \in 1..ChunkCount(batch.tickers) : DownloadedTimes(c) >= 1
       /\ \A t \in 1..Len(batch.tickers), j \in 1..Len(ProcPairs) :
             ProcPairs[j] # PriceHistory =>
                <<batch.tickers[t], ProcPairs[j][1], ProcPairs[j][2]>> \in batch.calls

\* C26: when process_tickers has returned, yf.download was called exactly
\* once for each chunk and _get_data was called for no Price History item
BatchedPathUsed ==
    batch.pc = "done" =>
       /\ \A c \in 1..ChunkCount(batch.tickers) : DownloadedTimes(c) = 1
       /\ \A key \in batch.calls : <<key[2], key[3]>> # PriceHistory

\* the backend holds a dataset for key that data_exists would call fresh
FreshStored(key) ==
    /\ \E e \in EntriesOf(key) : IsFresh(e.row.fetch_timestamp, DefaultMaxAgeHours, now)
    /\ Keep(Stored(key))

\* C27: with force_refresh = False process_tickers does not call the provider
\* for an item of which a fresh dataset is stored
ForceRefreshHonoured ==
    [][(last'.op = "proc_item" /\ ~batch.force /\ FreshStored(last'.key))
          => ~last'.called]_vars

RECURSIVE Flatten(_)
Flatten(chunks) ==
    IF chunks = <<>> THEN <<>> ELSE Head(chunks) \o Flatten(Tail(chunks))

\* the loop over the chunks has made its last pass
ChunkingDone ==
    batch.i = IF batch.loop = "export"
              THEN ExportBatchCount(Len(batch.tickers), batch.max)
              ELSE ChunkCount(batch.tickers)

\* the chunks in which sym is processed
ChunksOf(sym) ==
    {n \in 1..Len(batch.chunks) :
        \E k \in 1..Len(batch.chunks[n]) : batch.chunks[n][k] = sym}

Occurrences(sym) == {k \in 1..Len(batch.tickers) : batch.tickers[k] = sym}

\* every chunk is non-empty and has at most max symbols, and the chunks made
\* so far, concatenated, are the beginning of the list
ChunksInOrder ==
    /\ \A n \in 1..Len(batch.chunks) :
          Len(batch.chunks[n]) \in 1..batch.max
    /\ Len(Flatten(batch.chunks)) <= Len(batch.tickers)
    /\ Flatten(batch.chunks) = SubSeq(batch.tickers, 1, Len(Flatten(batch.chunks)))

====
